---- MODULE Spec2Model ----
(***************************************************************************)
(* yt-dlp-mcp: configuration resolution (config.ts) and the comment        *)
(* extraction pipeline (modules/comments.ts).                              *)
(*                                                                         *)
(* JavaScript strings are TLA+ strings (Len, \o and SubSeq act on them),   *)
(* so substring tests, split(':')[0], toLowerCase and the length of a      *)
(* JSON.stringify result are computed on the characters themselves.        *)
(***************************************************************************)
EXTENDS Integers, Sequences, FiniteSets, TLC

VARIABLES
    env,          \* process.env: variable name -> string or undefined
    files,        \* paths for which fs.existsSync answers true
    phase,        \* "setup" | "loaded" | "failed": position of the module load
    config,       \* the Config loadConfig returned, or NoConfig
    loadError,    \* message of the Error loadConfig threw, or undefined
    warnings,     \* console.warn lines of the last loadConfig, in order
    argConfig,    \* the Config last handed to getCookieArgs, or NoConfig
    cookieArgs,   \* what getCookieArgs returned for argConfig
    entry,        \* the exported function the caller invoked, or "none"
    url,          \* its url argument
    maxComments,  \* its maxComments argument
    sortOrder,    \* the sortOrder getVideoComments runs with
    cfgArg,       \* its _config argument, NoConfig when omitted
    pc,           \* position of getVideoComments
    args,         \* argument vector of the yt-dlp invocation
    spawnCount,   \* yt-dlp invocations made by the call
    rawComments,  \* metadata.comments || [] as parsed from the output
    truncatedComments, \* the local of the size loop
    response,     \* the response object last serialized
    result,       \* the local result: the serialized response
    caught,       \* the value the catch block of getVideoComments caught
    thrown,       \* message of the Error getVideoComments threw
    spc,          \* position of getVideoCommentsSummary
    summary,      \* the text getVideoCommentsSummary returned
    summaryThrown, \* message of the Error getVideoCommentsSummary threw
    sfPhase,      \* "idle" | "done": whether sanitizeFilename has returned
    sfName,       \* the filename argument of sanitizeFilename
    sfConfig,     \* its config argument, a Config['file']
    sfResult,     \* the string it returned
    defaults,     \* the module's defaultConfig object as it is now
    refCall,      \* a loadConfig() call kept for comparison, or NoCall
    lastCall,     \* the latest loadConfig() call an importer made, or NoCall
    between,      \* a call under another environment logged a cookie
                  \* warning since refCall
    shared,       \* the Config object every concurrent call is handed
    asked,        \* per call: what the caller invoked, and whether
                  \* another call was in flight then
    frames,       \* per frame: url, maxComments, sortOrder of the call
    cpc,          \* per call: "idle" | "awaiting" | "inner" | "settled"
    tools,        \* per call: what yt-dlp gave it
    inner,        \* per summary call: how its getVideoComments settled
    outcome,      \* per call: what the caller received
    lnPhase,      \* "idle" | "done": whether an author line was built
    lnComment,    \* the comment yt-dlp emitted for it
    lnLine        \* the author line the summary pushed for it

cfgVars == <<env, files, phase, config, loadError, warnings, argConfig, cookieArgs>>

cmtVars == <<entry, url, maxComments, sortOrder, cfgArg, pc, args, spawnCount,
             rawComments, truncatedComments, response, result, caught,
             thrown, spc, summary, summaryThrown>>

sanVars == <<sfPhase, sfName, sfConfig, sfResult>>

lifeVars == <<defaults, refCall, lastCall, between>>

conVars == <<shared, asked, frames, cpc, tools, inner, outcome>>

lineVars == <<lnPhase, lnComment, lnLine>>

vars == <<cfgVars, cmtVars, sanVars, lifeVars, conVars, lineVars>>

-----------------------------------------------------------------------------
(* Bounds *)

MaxEnvSet == 2        \* at most this many environment variables set at once
MaxSource == 3        \* at most this many comments in the tool's output
MaxCalls == 2         \* at most this many calls in flight together

-----------------------------------------------------------------------------
(* JavaScript values and string primitives *)

\* the JavaScript value undefined, where a string is expected
undefined == "<undefined>"

\* ToBoolean of an optional string: undefined and "" are falsy
Truthy(s) == s # undefined /\ s # ""

CharAt(s, i) == SubSeq(s, i, i)

\* String.prototype.includes
Includes(s, sub) ==
    \E i \in 1..(Len(s) - Len(sub) + 1) : SubSeq(s, i, i + Len(sub) - 1) = sub

\* String.prototype.split(sep)[0] for a one-character separator
SplitFirst(s, sep) ==
    IF \E i \in 1..Len(s) : CharAt(s, i) = sep
    THEN LET k == CHOOSE i \in 1..Len(s) :
                     /\ CharAt(s, i) = sep
                     /\ \A j \in 1..(i - 1) : CharAt(s, j) # sep
         IN  SubSeq(s, 1, k - 1)
    ELSE s

UpperLetters == "ABCDEFGHIJKLMNOPQRSTUVWXYZ"
LowerLetters == "abcdefghijklmnopqrstuvwxyz"

IsUpper(c) == \E i \in 1..26 : CharAt(UpperLetters, i) = c
IsLower(c) == \E i \in 1..26 : CharAt(LowerLetters, i) = c
IsLetter(c) == IsUpper(c) \/ IsLower(c)

LowerChar(c) ==
    IF IsUpper(c)
    THEN CharAt(LowerLetters, CHOOSE i \in 1..26 : CharAt(UpperLetters, i) = c)
    ELSE c

\* the characters lo..hi of s, each lower-cased (by halves, which keeps
\* the recursion shallow)
RECURSIVE LowerRange(_, _, _)
LowerRange(s, lo, hi) ==
    IF lo > hi THEN ""
    ELSE IF lo = hi THEN LowerChar(CharAt(s, lo))
    ELSE LowerRange(s, lo, (lo + hi) \div 2)
         \o LowerRange(s, (lo + hi) \div 2 + 1, hi)

\* String.prototype.toLowerCase
toLowerCase(s) == LowerRange(s, 1, Len(s))

\* the elements lo..hi of seq with sep between them
RECURSIVE JoinRange(_, _, _, _)
JoinRange(seq, sep, lo, hi) ==
    IF lo > hi THEN ""
    ELSE IF lo = hi THEN seq[lo]
    ELSE JoinRange(seq, sep, lo, (lo + hi) \div 2) \o sep
         \o JoinRange(seq, sep, (lo + hi) \div 2 + 1, hi)

\* Array.prototype.join
Join(seq, sep) == JoinRange(seq, sep, 1, Len(seq))

Digits == "0123456789"
IsDigit(c) == \E i \in 1..10 : CharAt(Digits, i) = c
DigitVal(c) == (CHOOSE i \in 1..10 : CharAt(Digits, i) = c) - 1

\* the JavaScript number NaN, where parseInt finds no digits
NaN == -999999

\* the value of the decimal digits of s from position i on, after acc
RECURSIVE LeadingDigits(_, _, _)
LeadingDigits(s, i, acc) ==
    IF i <= Len(s) /\ IsDigit(CharAt(s, i))
    THEN LeadingDigits(s, i + 1, acc * 10 + DigitVal(CharAt(s, i)))
    ELSE acc

\* parseInt(s) on a decimal string with an optional sign
parseInt(s) ==
    LET neg   == s # "" /\ CharAt(s, 1) = "-"
        start == IF s # "" /\ (CharAt(s, 1) = "-" \/ CharAt(s, 1) = "+")
                 THEN 2 ELSE 1
    IN  IF start > Len(s) \/ ~IsDigit(CharAt(s, start)) THEN NaN
        ELSE IF neg THEN 0 - LeadingDigits(s, start, 0)
        ELSE LeadingDigits(s, start, 0)

\* the JavaScript value undefined, where a number is expected
undefinedNum == -999998

\* a || b on numbers: undefined, NaN and 0 are falsy
NumOr(a, b) == IF a = undefinedNum \/ a = NaN \/ a = 0 THEN b ELSE a

\* a || b on optional strings
StrOr(a, b) == IF Truthy(a) THEN a ELSE b

\* a ?? b on optional strings
StrNullish(a, b) == IF a = undefined THEN b ELSE a

\* the pieces of s from position from on; i scans for the next separator
RECURSIVE SplitFrom(_, _, _, _)
SplitFrom(s, sep, from, i) ==
    IF i > Len(s) THEN <<SubSeq(s, from, Len(s))>>
    ELSE IF CharAt(s, i) = sep
    THEN <<SubSeq(s, from, i - 1)>> \o SplitFrom(s, sep, i + 1, i + 1)
    ELSE SplitFrom(s, sep, from, i + 1)

\* String.prototype.split(sep) for a one-character separator
Split(s, sep) == SplitFrom(s, sep, 1, 1)

\* Array.prototype.includes
SeqIncludes(seq, x) == \E i \in 1..Len(seq) : seq[i] = x

-----------------------------------------------------------------------------
(* config.ts *)

VALID_BROWSERS ==
    <<"brave", "chrome", "chromium", "edge",
      "firefox", "opera", "safari", "vivaldi", "whale">>

\* path.join(os.homedir(), "Downloads") on the host of the process
HomeDownloads == "/home/user/Downloads"

\* a RegExp object: its source and whether it carries the g flag
RegExp(source, global) == [source |-> source, global |-> global]

defaultConfig ==
    [file |->
        [maxFilenameLength |-> 50,
         downloadsDir      |-> HomeDownloads,
         tempDirPrefix     |-> "ytdlp-",
         sanitize |->
            [replaceChar    |-> "_",
             truncateSuffix |-> "...",
             illegalChars   |-> RegExp("[<>:\"/\\\\|?*\\x00-\\x1F]", TRUE),
             reservedNames  |->
                <<"CON", "PRN", "AUX", "NUL", "COM1", "COM2", "COM3", "COM4",
                  "COM5", "COM6", "COM7", "COM8", "COM9", "LPT1", "LPT2",
                  "LPT3", "LPT4", "LPT5", "LPT6", "LPT7", "LPT8", "LPT9">>]],
     tools    |-> [required |-> <<"yt-dlp">>],
     download |->
        [defaultResolution       |-> "720p",
         defaultAudioFormat      |-> "m4a",
         defaultSubtitleLanguage |-> "en"],
     limits   |-> [characterLimit |-> 25000, maxTranscriptLength |-> 50000],
     cookies  |-> [file |-> undefined, fromBrowser |-> undefined]]

\* the environment variables loadEnvConfig reads, and the two limit
\* variables the README documents
EnvVars ==
    {"YTDLP_SANITIZE_REPLACE_CHAR", "YTDLP_SANITIZE_TRUNCATE_SUFFIX",
     "YTDLP_SANITIZE_ILLEGAL_CHARS", "YTDLP_SANITIZE_RESERVED_NAMES",
     "YTDLP_MAX_FILENAME_LENGTH", "YTDLP_DOWNLOADS_DIR", "YTDLP_TEMP_DIR_PREFIX",
     "YTDLP_DEFAULT_RESOLUTION", "YTDLP_DEFAULT_AUDIO_FORMAT",
     "YTDLP_DEFAULT_SUBTITLE_LANG", "YTDLP_COOKIES_FILE",
     "YTDLP_COOKIES_FROM_BROWSER",
     "YTDLP_CHARACTER_LIMIT", "YTDLP_MAX_TRANSCRIPT_LENGTH"}

\* the cookie file the tests create, and a path nothing ever creates
CookieFile  == "/tmp/cookie-test-a1/cookies.txt"
MissingFile == "/nonexistent/path/cookies.txt"

\* the values a test or a deployment gives each variable
EnvValues(name) ==
    CASE name = "YTDLP_COOKIES_FILE" -> {"", CookieFile, MissingFile}
      [] name = "YTDLP_COOKIES_FROM_BROWSER" ->
            {"", "chrome", "whale", "Chrome", "chrome:Profile 1", "firefox::work",
             "chrome:", "chrome:~/.var/app/com.google.Chrome/",
             "invalidbrowser", ":chrome", "chrome profile"}
      [] name = "YTDLP_MAX_FILENAME_LENGTH" -> {"3", "100", "abc", "0"}
      [] name = "YTDLP_DOWNLOADS_DIR" -> {"/data/videos"}
      [] name = "YTDLP_TEMP_DIR_PREFIX" -> {"tmp-"}
      [] name = "YTDLP_DEFAULT_RESOLUTION" -> {"1080p", "4k"}
      [] name = "YTDLP_DEFAULT_AUDIO_FORMAT" -> {"mp3", "flac"}
      [] name = "YTDLP_DEFAULT_SUBTITLE_LANG" -> {"zh-Hant-TW", "english"}
      [] name = "YTDLP_SANITIZE_REPLACE_CHAR" -> {"-"}
      [] name = "YTDLP_SANITIZE_TRUNCATE_SUFFIX" -> {"~"}
      [] name = "YTDLP_SANITIZE_ILLEGAL_CHARS" -> {"[<>:]"}
      [] name = "YTDLP_SANITIZE_RESERVED_NAMES" -> {"CON,NUL"}
      [] name = "YTDLP_CHARACTER_LIMIT" -> {"1000"}
      [] name = "YTDLP_MAX_TRANSCRIPT_LENGTH" -> {"90000"}

\* process.env.NAME
Getenv(e, name) == e[name]

\* no Config object: CONFIG before the module is loaded or when loadConfig
\* threw, and an omitted _config argument
NoConfig == [loaded |-> FALSE]

\* an optional object (array, RegExp): <<>> is undefined, <<v>> is v
ObjOr(a, b) == IF a = <<>> THEN b ELSE a[1]

\* loadEnvConfig(): the override read from process.env.  A leaf the code
\* leaves unassigned is undefined here, which is what override.x?.y reads
\* whether the enclosing object exists or not.
loadEnvConfig(e) ==
    [file |->
        [sanitize |->
            [replaceChar    |-> Getenv(e, "YTDLP_SANITIZE_REPLACE_CHAR"),
             truncateSuffix |-> Getenv(e, "YTDLP_SANITIZE_TRUNCATE_SUFFIX"),
             illegalChars   |->
                IF Truthy(Getenv(e, "YTDLP_SANITIZE_ILLEGAL_CHARS"))
                THEN <<RegExp(Getenv(e, "YTDLP_SANITIZE_ILLEGAL_CHARS"), FALSE)>>
                ELSE <<>>,
             reservedNames  |->
                IF Getenv(e, "YTDLP_SANITIZE_RESERVED_NAMES") # undefined
                THEN <<Split(Getenv(e, "YTDLP_SANITIZE_RESERVED_NAMES"), ",")>>
                ELSE <<>>],
         maxFilenameLength |->
            IF Truthy(Getenv(e, "YTDLP_MAX_FILENAME_LENGTH"))
            THEN parseInt(Getenv(e, "YTDLP_MAX_FILENAME_LENGTH"))
            ELSE undefinedNum,
         downloadsDir |->
            IF Truthy(Getenv(e, "YTDLP_DOWNLOADS_DIR"))
            THEN Getenv(e, "YTDLP_DOWNLOADS_DIR") ELSE undefined,
         tempDirPrefix |->
            IF Truthy(Getenv(e, "YTDLP_TEMP_DIR_PREFIX"))
            THEN Getenv(e, "YTDLP_TEMP_DIR_PREFIX") ELSE undefined],
     download |->
        [defaultResolution |->
            IF /\ Truthy(Getenv(e, "YTDLP_DEFAULT_RESOLUTION"))
               /\ SeqIncludes(<<"480p", "720p", "1080p", "best">>,
                              Getenv(e, "YTDLP_DEFAULT_RESOLUTION"))
            THEN Getenv(e, "YTDLP_DEFAULT_RESOLUTION") ELSE undefined,
         defaultAudioFormat |->
            IF /\ Truthy(Getenv(e, "YTDLP_DEFAULT_AUDIO_FORMAT"))
               /\ SeqIncludes(<<"m4a", "mp3">>,
                              Getenv(e, "YTDLP_DEFAULT_AUDIO_FORMAT"))
            THEN Getenv(e, "YTDLP_DEFAULT_AUDIO_FORMAT") ELSE undefined,
         defaultSubtitleLanguage |->
            IF Truthy(Getenv(e, "YTDLP_DEFAULT_SUBTITLE_LANG"))
            THEN Getenv(e, "YTDLP_DEFAULT_SUBTITLE_LANG") ELSE undefined],
     tools   |-> [required |-> <<>>],
     \* no statement of loadEnvConfig assigns envConfig.limits
     limits  |-> [characterLimit |-> undefinedNum,
                  maxTranscriptLength |-> undefinedNum],
     cookies |->
        [file |->
            IF Truthy(Getenv(e, "YTDLP_COOKIES_FILE"))
            THEN Getenv(e, "YTDLP_COOKIES_FILE") ELSE undefined,
         fromBrowser |->
            IF Truthy(Getenv(e, "YTDLP_COOKIES_FROM_BROWSER"))
            THEN Getenv(e, "YTDLP_COOKIES_FROM_BROWSER") ELSE undefined]]

\* mergeConfig(base, override)
mergeConfig(base, override) ==
    [file |->
        [maxFilenameLength |->
            NumOr(override.file.maxFilenameLength, base.file.maxFilenameLength),
         downloadsDir  |-> StrOr(override.file.downloadsDir, base.file.downloadsDir),
         tempDirPrefix |-> StrOr(override.file.tempDirPrefix, base.file.tempDirPrefix),
         sanitize |->
            [replaceChar |->
                StrOr(override.file.sanitize.replaceChar,
                      base.file.sanitize.replaceChar),
             truncateSuffix |->
                StrOr(override.file.sanitize.truncateSuffix,
                      base.file.sanitize.truncateSuffix),
             illegalChars |->
                ObjOr(override.file.sanitize.illegalChars,
                      base.file.sanitize.illegalChars),
             reservedNames |->
                ObjOr(override.file.sanitize.reservedNames,
                      base.file.sanitize.reservedNames)]],
     tools    |-> [required |-> ObjOr(override.tools.required, base.tools.required)],
     download |->
        [defaultResolution |->
            StrOr(override.download.defaultResolution,
                  base.download.defaultResolution),
         defaultAudioFormat |->
            StrOr(override.download.defaultAudioFormat,
                  base.download.defaultAudioFormat),
         defaultSubtitleLanguage |->
            StrOr(override.download.defaultSubtitleLanguage,
                  base.download.defaultSubtitleLanguage)],
     limits |->
        [characterLimit |->
            NumOr(override.limits.characterLimit, base.limits.characterLimit),
         maxTranscriptLength |->
            NumOr(override.limits.maxTranscriptLength,
                  base.limits.maxTranscriptLength)],
     cookies |->
        [file        |-> StrNullish(override.cookies.file, base.cookies.file),
         fromBrowser |-> StrNullish(override.cookies.fromBrowser,
                                    base.cookies.fromBrowser)]]

AllLetters(s, from, to) == \A i \in from..to : IsLetter(CharAt(s, i))

\* /^[a-z]{2,3}(-[A-Z][a-z]{3})?(-[A-Z]{2})?$/i.test(s)
LanguageTagTest(s) ==
    \E b \in {2, 3}, script \in {0, 5}, region \in {0, 3} :
        /\ Len(s) = b + script + region
        /\ AllLetters(s, 1, b)
        /\ script = 5 => /\ CharAt(s, b + 1) = "-"
                         /\ AllLetters(s, b + 2, b + 5)
        /\ region = 3 => /\ CharAt(s, b + script + 1) = "-"
                         /\ AllLetters(s, b + script + 2, b + script + 3)

\* fs.existsSync answering true for every path
existsSync_Always(fs, path) == TRUE

\* fs.existsSync(path)
existsSync(fs, path) == path \in fs

\* the browser name compared as typed
BrowserNameOf_NoLowerCase(fromBrowser) == SplitFirst(fromBrowser, ":")

\* config.cookies.fromBrowser.split(':')[0].toLowerCase()
BrowserNameOf(fromBrowser) == toLowerCase(SplitFirst(fromBrowser, ":"))

\* the cookie file never looked for
CookieFileMissing_NotChecked(cfg, fs) == FALSE

\* config.cookies.file is set and fs.existsSync does not find it
CookieFileMissing(cfg, fs) ==
    Truthy(cfg.cookies.file) /\ ~existsSync(fs, cfg.cookies.file)

\* validateCookiesConfig dropping the browser as well when the file is missing
validateCookiesConfig_ClearsBoth(cfg, fs) ==
    LET fileBad == CookieFileMissing(cfg, fs)
        warnFile == IF fileBad
                    THEN <<"[yt-dlp-mcp] Cookie file not found: "
                           \o cfg.cookies.file \o ", continuing without cookies">>
                    ELSE <<>>
        browserName == BrowserNameOf(cfg.cookies.fromBrowser)
        browserBad == /\ Truthy(cfg.cookies.fromBrowser)
                      /\ ~SeqIncludes(VALID_BROWSERS, browserName)
        warnBrowser == IF browserBad
                       THEN <<"[yt-dlp-mcp] Invalid browser name: " \o browserName
                              \o ". Valid browsers: " \o Join(VALID_BROWSERS, ", ")>>
                       ELSE <<>>
    IN  [config |->
            [cfg EXCEPT !.cookies.file = IF fileBad THEN undefined ELSE @,
                        !.cookies.fromBrowser =
                            IF browserBad \/ fileBad THEN undefined ELSE @],
         warnings |-> warnFile \o warnBrowser]

\* validateCookiesConfig(config): never throws; clears a bad cookie field in
\* place and logs a warning.  Yields the config as left and the lines logged.
validateCookiesConfig(cfg, fs) ==
    LET fileBad == CookieFileMissing(cfg, fs)
        warnFile == IF fileBad
                    THEN <<"[yt-dlp-mcp] Cookie file not found: "
                           \o cfg.cookies.file \o ", continuing without cookies">>
                    ELSE <<>>
        browserName == BrowserNameOf(cfg.cookies.fromBrowser)
        browserBad == /\ Truthy(cfg.cookies.fromBrowser)
                      /\ ~SeqIncludes(VALID_BROWSERS, browserName)
        warnBrowser == IF browserBad
                       THEN <<"[yt-dlp-mcp] Invalid browser name: " \o browserName
                              \o ". Valid browsers: " \o Join(VALID_BROWSERS, ", ")>>
                       ELSE <<>>
    IN  [config |->
            [cfg EXCEPT !.cookies.file = IF fileBad THEN undefined ELSE @,
                        !.cookies.fromBrowser = IF browserBad THEN undefined ELSE @],
         warnings |-> warnFile \o warnBrowser]

\* validateConfig running the cookie validation ahead of the structural rules
validateConfig_CookiesFirst(cfg, fs) ==
    LET v == validateCookiesConfig(cfg, fs)
        fail(msg) == [threw |-> msg, config |-> v.config, warnings |-> v.warnings]
    IN  IF cfg.file.maxFilenameLength < 5
        THEN fail("maxFilenameLength must be at least 5")
        ELSE IF ~Truthy(cfg.file.downloadsDir)
        THEN fail("downloadsDir must be specified")
        ELSE IF ~Truthy(cfg.file.tempDirPrefix)
        THEN fail("tempDirPrefix must be specified")
        ELSE IF ~SeqIncludes(<<"480p", "720p", "1080p", "best">>,
                             cfg.download.defaultResolution)
        THEN fail("Invalid defaultResolution")
        ELSE IF ~SeqIncludes(<<"m4a", "mp3">>, cfg.download.defaultAudioFormat)
        THEN fail("Invalid defaultAudioFormat")
        ELSE IF ~LanguageTagTest(cfg.download.defaultSubtitleLanguage)
        THEN fail("Invalid defaultSubtitleLanguage")
        ELSE [threw |-> undefined, config |-> v.config, warnings |-> v.warnings]

\* validateConfig(config): threw is the message of the Error thrown, or
\* undefined when it returns; cookie validation runs last.
validateConfig(cfg, fs) ==
    LET fail(msg) == [threw |-> msg, config |-> cfg, warnings |-> <<>>]
    IN  IF cfg.file.maxFilenameLength < 5
        THEN fail("maxFilenameLength must be at least 5")
        ELSE IF ~Truthy(cfg.file.downloadsDir)
        THEN fail("downloadsDir must be specified")
        ELSE IF ~Truthy(cfg.file.tempDirPrefix)
        THEN fail("tempDirPrefix must be specified")
        ELSE IF ~SeqIncludes(<<"480p", "720p", "1080p", "best">>,
                             cfg.download.defaultResolution)
        THEN fail("Invalid defaultResolution")
        ELSE IF ~SeqIncludes(<<"m4a", "mp3">>, cfg.download.defaultAudioFormat)
        THEN fail("Invalid defaultAudioFormat")
        ELSE IF ~LanguageTagTest(cfg.download.defaultSubtitleLanguage)
        THEN fail("Invalid defaultSubtitleLanguage")
        ELSE LET v == validateCookiesConfig(cfg, fs)
             IN  [threw |-> undefined, config |-> v.config, warnings |-> v.warnings]

\* loadConfig treating a cookie warning as a structural error
loadConfig_StrictCookies(e, fs) ==
    LET r == validateConfig(mergeConfig(defaultConfig, loadEnvConfig(e)), fs)
    IN  IF r.threw = undefined /\ r.warnings # <<>>
        THEN [threw |-> "Invalid cookies configuration",
              config |-> r.config, warnings |-> r.warnings]
        ELSE r

\* loadConfig()
loadConfig(e, fs) == validateConfig(mergeConfig(defaultConfig, loadEnvConfig(e)), fs)

\* getCookieArgs with the two tests in the other order
getCookieArgs_BrowserFirst(cfg) ==
    IF "cookies" \notin DOMAIN cfg THEN <<>>
    ELSE IF Truthy(cfg.cookies.fromBrowser)
    THEN <<"--cookies-from-browser", cfg.cookies.fromBrowser>>
    ELSE IF Truthy(cfg.cookies.file) THEN <<"--cookies", cfg.cookies.file>>
    ELSE <<>>

\* getCookieArgs(config)
getCookieArgs(cfg) ==
    IF "cookies" \notin DOMAIN cfg THEN <<>>
    ELSE IF Truthy(cfg.cookies.file) THEN <<"--cookies", cfg.cookies.file>>
    ELSE IF Truthy(cfg.cookies.fromBrowser)
    THEN <<"--cookies-from-browser", cfg.cookies.fromBrowser>>
    ELSE <<>>

-----------------------------------------------------------------------------
(* The configuration resolver as a state machine: a test or a deployment   *)
(* sets environment variables and cookie files, the module load runs       *)
(* loadConfig once, callers ask for the cookie arguments.                  *)

\* process.env with none of the variables set
originalEnv == [n \in EnvVars |-> undefined]

NumSet(e) == Cardinality({n \in EnvVars : e[n] # undefined})

\* Config values a caller builds by hand: every combination of the two
\* cookie fields, and one object with no cookies member at all
LiteralConfigs ==
    { [defaultConfig EXCEPT !.cookies = [file |-> f, fromBrowser |-> b]] :
        f \in {undefined, "", CookieFile},
        b \in {undefined, "", "firefox::work"} }
    \cup { [limits |-> defaultConfig.limits] }

CfgInit ==
    /\ env = originalEnv
    /\ files = {}
    /\ phase = "setup"
    /\ config = NoConfig
    /\ loadError = undefined
    /\ warnings = <<>>
    /\ argConfig = NoConfig
    /\ cookieArgs = <<>>

\* process.env.NAME = value, before the module is imported
SetEnv(name, v) ==
    /\ phase = "setup"
    /\ NumSet([env EXCEPT ![name] = v]) <= MaxEnvSet
    /\ env[name] # v
    /\ env' = [env EXCEPT ![name] = v]
    /\ UNCHANGED <<files, phase, config, loadError, warnings, argConfig, cookieArgs>>

\* fs.writeFileSync(cookieFile, ...)
CreateCookieFile ==
    /\ CookieFile \notin files
    /\ files' = files \cup {CookieFile}
    /\ UNCHANGED <<env, phase, config, loadError, warnings, argConfig, cookieArgs>>

\* fs.rmSync(tempDir, ...)
RemoveCookieFile ==
    /\ CookieFile \in files
    /\ files' = files \ {CookieFile}
    /\ UNCHANGED <<env, phase, config, loadError, warnings, argConfig, cookieArgs>>

\* import of config.ts: export const CONFIG = loadConfig()
LoadConfig ==
    /\ phase = "setup"
    /\ LET r == loadConfig(env, files)
       IN  IF r.threw = undefined
           THEN /\ phase' = "loaded"
                /\ config' = r.config
                /\ loadError' = undefined
                /\ warnings' = r.warnings
           ELSE /\ phase' = "failed"
                /\ config' = NoConfig
                /\ loadError' = r.threw
                /\ warnings' = r.warnings
    /\ UNCHANGED <<env, files, argConfig, cookieArgs>>

\* getCookieArgs(c) on the loaded configuration or on a hand-built one;
\* the function is there once config.ts has been imported
GetCookieArgs(c) ==
    /\ phase = "loaded"
    /\ argConfig' = c
    /\ cookieArgs' = getCookieArgs(c)
    /\ UNCHANGED <<env, files, phase, config, loadError, warnings>>

\* jest.resetModules() and process.env = { ...originalEnv }
ResetModules ==
    /\ phase # "setup"
    /\ env' = originalEnv
    /\ phase' = "setup"
    /\ config' = NoConfig
    /\ loadError' = undefined
    /\ warnings' = <<>>
    /\ argConfig' = NoConfig
    /\ cookieArgs' = <<>>
    /\ UNCHANGED files

CfgNext ==
    \/ \E name \in EnvVars : \E v \in EnvValues(name) : SetEnv(name, v)
    \/ CreateCookieFile
    \/ RemoveCookieFile
    \/ LoadConfig
    \/ \E c \in LiteralConfigs \cup {config} : GetCookieArgs(c)
    \/ ResetModules


-----------------------------------------------------------------------------
(* modules/comments.ts: values *)

\* the members of the Comment interface, in the order the projection
\* of getVideoComments writes them
KnownFields ==
    <<"id", "text", "author", "author_id", "author_url", "author_is_uploader",
      "author_is_verified", "like_count", "is_pinned", "is_favorited",
      "parent", "timestamp", "time_text">>

KnownFieldSet == {KnownFields[i] : i \in 1..Len(KnownFields)}

FieldType(f) ==
    IF f \in {"author_is_uploader", "author_is_verified", "is_pinned", "is_favorited"}
    THEN "boolean"
    ELSE IF f \in {"like_count", "timestamp"} THEN "number"
    ELSE "string"

\* comment.f with an absent member defaulted to "", 0 or false
Get_Defaulted(c, f) ==
    IF f \in DOMAIN c THEN <<c[f]>>
    ELSE IF FieldType(f) = "string" THEN <<"">>
    ELSE IF FieldType(f) = "number" THEN <<0>>
    ELSE <<FALSE>>

\* comment.f on a parsed comment: <<v>>, or <<>> for undefined
Get(c, f) == IF f \in DOMAIN c THEN <<c[f]>> ELSE <<>>

\* the object literal of comments.map(...): all thirteen members, each
\* holding the source's value or undefined
ProjectComment(c) == [f \in KnownFieldSet |-> Get(c, f)]

MapProject(cs) == [i \in 1..Len(cs) |-> ProjectComment(cs[i])]

\* slice keeping the last elements instead of the first
Slice0_FromEnd(seq, end) ==
    LET n == Len(seq)
        e == IF end < 0 THEN (IF n + end < 0 THEN 0 ELSE n + end)
             ELSE IF end > n THEN n ELSE end
    IN  SubSeq(seq, n - e + 1, n)

\* Array.prototype.slice(0, end)
Slice0(seq, end) ==
    LET n == Len(seq)
        e == IF end < 0 THEN (IF n + end < 0 THEN 0 ELSE n + end)
             ELSE IF end > n THEN n ELSE end
    IN  SubSeq(seq, 1, e)

EscapeChar(c) ==
    IF c = "\"" THEN "\\\""
    ELSE IF c = "\\" THEN "\\\\"
    ELSE IF c = "\n" THEN "\\n"
    ELSE c

\* the characters lo..hi of s, each escaped
RECURSIVE EscapeRange(_, _, _)
EscapeRange(s, lo, hi) ==
    IF lo > hi THEN ""
    ELSE IF lo = hi THEN EscapeChar(CharAt(s, lo))
    ELSE EscapeRange(s, lo, (lo + hi) \div 2)
         \o EscapeRange(s, (lo + hi) \div 2 + 1, hi)

\* the JSON text of a string: quotes, with ", \ and newline escaped
QuoteJson(s) == "\"" \o EscapeRange(s, 1, Len(s)) \o "\""

BoolJson(b) == IF b THEN "true" ELSE "false"

ValueJson(f, v) ==
    IF FieldType(f) = "string" THEN QuoteJson(v)
    ELSE IF FieldType(f) = "number" THEN ToString(v)
    ELSE BoolJson(v)

\* JSON.stringify of one element of comments at nesting depth 2, indent 2:
\* members whose value is undefined are left out
CommentJson(obj) ==
    LET present == SelectSeq(KnownFields, LAMBDA f : obj[f] # <<>>)
        member(f) == "      " \o QuoteJson(f) \o ": " \o ValueJson(f, obj[f][1])
    IN  IF Len(present) = 0 THEN "{}"
        ELSE "{\n"
             \o Join([i \in 1..Len(present) |-> member(present[i])], ",\n")
             \o "\n    }"

\* JSON.stringify(response, null, 2)
StringifyResponse(r) ==
    "{\n  \"count\": " \o ToString(r.count)
    \o ",\n  \"has_more\": " \o BoolJson(r.has_more)
    \o ",\n  \"comments\": "
    \o (IF Len(r.comments) = 0 THEN "[]"
        ELSE "[\n    "
             \o Join([i \in 1..Len(r.comments) |-> CommentJson(r.comments[i])],
                     ",\n    ")
             \o "\n  ]")
    \o (IF "_truncated" \in DOMAIN r
        THEN ",\n  \"_truncated\": " \o BoolJson(r._truncated)
             \o ",\n  \"_message\": " \o QuoteJson(r._message)
        ELSE "")
    \o "\n}"

\* the catch block with the authentication rule tested before the others
ClassifyError_AuthFirst(error, u) ==
    IF error.isError
    THEN IF Includes(error.message, "Sign in")
            \/ Includes(error.message, "age")
         THEN "This video requires authentication to view comments. Configure cookies in your settings."
         ELSE IF Includes(error.message, "Video unavailable")
            \/ Includes(error.message, "private")
         THEN "Video is unavailable or private: " \o u
              \o ". Check the URL and video privacy settings."
         ELSE IF Includes(error.message, "Unsupported URL")
                 \/ Includes(error.message, "extractor")
         THEN "Unsupported platform or video URL: " \o u
              \o ". Comments extraction is primarily supported for YouTube."
         ELSE IF Includes(error.message, "network")
                 \/ Includes(error.message, "Connection")
         THEN "Network error while extracting comments. Check your internet connection and retry."
         ELSE IF Includes(error.message, "comments are disabled")
                 \/ Includes(error.message, "Comments are turned off")
         THEN "Comments are disabled for this video: " \o u
         ELSE "Failed to extract video comments: " \o error.message
              \o ". Verify the URL is correct."
    ELSE "Failed to extract video comments from " \o u

\* the catch block of getVideoComments: the message of the Error it throws
\* for a caught value (an Error with a message, or anything else)
ClassifyError(error, u) ==
    IF error.isError
    THEN IF Includes(error.message, "Video unavailable")
            \/ Includes(error.message, "private")
         THEN "Video is unavailable or private: " \o u
              \o ". Check the URL and video privacy settings."
         ELSE IF Includes(error.message, "Unsupported URL")
                 \/ Includes(error.message, "extractor")
         THEN "Unsupported platform or video URL: " \o u
              \o ". Comments extraction is primarily supported for YouTube."
         ELSE IF Includes(error.message, "network")
                 \/ Includes(error.message, "Connection")
         THEN "Network error while extracting comments. Check your internet connection and retry."
         ELSE IF Includes(error.message, "comments are disabled")
                 \/ Includes(error.message, "Comments are turned off")
         THEN "Comments are disabled for this video: " \o u
         ELSE IF Includes(error.message, "Sign in")
                 \/ Includes(error.message, "age")
         THEN "This video requires authentication to view comments. Configure cookies in your settings."
         ELSE "Failed to extract video comments: " \o error.message
              \o ". Verify the URL is correct."
    ELSE "Failed to extract video comments from " \o u

\* the argument vector with the cookie arguments after the url
BuildArgs_CookiesLast(u, maxC, sort, cfg) ==
    <<"--dump-json",
      "--no-warnings",
      "--no-check-certificate",
      "--write-comments",
      "--extractor-args",
      "youtube:comment_sort=" \o sort \o ";max_comments=" \o ToString(maxC)
          \o ",all,all",
      "--skip-download">>
    \o <<u>>
    \o (IF cfg # NoConfig THEN getCookieArgs(cfg) ELSE <<>>)

\* the argument vector handed to yt-dlp
BuildArgs(u, maxC, sort, cfg) ==
    <<"--dump-json",
      "--no-warnings",
      "--no-check-certificate",
      "--write-comments",
      "--extractor-args",
      "youtube:comment_sort=" \o sort \o ";max_comments=" \o ToString(maxC)
          \o ",all,all",
      "--skip-download">>
    \o (IF cfg # NoConfig THEN getCookieArgs(cfg) ELSE <<>>)
    \o <<u>>

\* the response literal with has_more already true at the cap
BuildResponse_HasMoreAtCap(raw, maxC) ==
    LET comments == Slice0(raw, maxC)
    IN  [count    |-> Len(comments),
         has_more |-> Len(raw) >= maxC,
         comments |-> MapProject(comments)]

\* the response literal marking a capped list as truncated
BuildResponse_FlagsWhenCapped(raw, maxC) ==
    LET comments == Slice0(raw, maxC)
    IN  IF Len(raw) > maxC
        THEN [count      |-> Len(comments),
              has_more   |-> TRUE,
              comments   |-> MapProject(comments),
              _truncated |-> TRUE,
              _message   |-> "Response truncated to " \o ToString(Len(comments))
                             \o " comments due to size limits. Use smaller maxComments value."]
        ELSE [count    |-> Len(comments),
              has_more |-> FALSE,
              comments |-> MapProject(comments)]

\* the response literal built from the parsed metadata
BuildResponse(raw, maxC) ==
    LET comments == Slice0(raw, maxC)
    IN  [count    |-> Len(comments),
         has_more |-> Len(raw) > maxC,
         comments |-> MapProject(comments)]

\* the response literal of one pass of the size loop
TruncatedResponse(kept) ==
    [count      |-> Len(kept),
     has_more   |-> TRUE,
     comments   |-> kept,
     _truncated |-> TRUE,
     _message   |-> "Response truncated to " \o ToString(Len(kept))
                    \o " comments due to size limits. Use smaller maxComments value."]

\* validateUrl(url) of modules/utils.ts: whether the text is a URL
WellFormedUrls ==
    {"https://www.youtube.com/watch?v=jNQXAC9IVRw"}

validateUrl(u) == u \in WellFormedUrls

\* getVideoComments spawning yt-dlp before it looks at the URL
StartComments_SpawnFirst(u, maxC, sort, cfg) ==
    IF ~validateUrl(u)
    THEN [pc |-> "threw", thrown |-> "Invalid or unsupported URL format",
          args |-> BuildArgs(u, maxC, sort, cfg), spawned |-> 1]
    ELSE [pc |-> "awaiting", thrown |-> undefined,
          args |-> BuildArgs(u, maxC, sort, cfg), spawned |-> 1]

\* getVideoComments up to its first await: the URL check, the argument
\* vector and the spawn of yt-dlp.  spawned counts the invocations started.
StartComments(u, maxC, sort, cfg) ==
    IF ~validateUrl(u)
    THEN [pc |-> "threw", thrown |-> "Invalid or unsupported URL format",
          args |-> <<>>, spawned |-> 0]
    ELSE [pc |-> "awaiting", thrown |-> undefined,
          args |-> BuildArgs(u, maxC, sort, cfg), spawned |-> 1]

\* the while test letting the last comment go as well
LoopCondition_ToZero(res, cfg, truncated) ==
    Len(res) > cfg.limits.characterLimit /\ Len(truncated) > 0

\* the test of the while loop
LoopCondition(res, cfg, truncated) ==
    Len(res) > cfg.limits.characterLimit /\ Len(truncated) > 1

\* the guard of the size loop taking a missing config for a limit of zero
OverLimit_WithoutConfig(res, cfg) ==
    cfg = NoConfig \/ Len(res) > cfg.limits.characterLimit

\* the test of the if that guards the size loop
OverLimit(res, cfg) ==
    cfg # NoConfig /\ Len(res) > cfg.limits.characterLimit

\* the message of the SyntaxError JSON.parse throws on text that is not JSON
JsonSyntaxError == "Unexpected token < in JSON at position 0"

-----------------------------------------------------------------------------
(* getVideoCommentsSummary *)

\* JSON.parse of a serialized response: a member that was undefined when
\* serialized does not exist in the parsed comment
ParseComment(obj) ==
    [f \in {g \in KnownFieldSet : obj[g] # <<>>} |-> obj[f][1]]

ParseResponse(r) ==
    [r EXCEPT !.comments = [i \in 1..Len(r.comments) |-> ParseComment(r.comments[i])]]

\* Number.prototype.toLocaleString() of a non-negative integer, en-US
RECURSIVE toLocaleString(_)
toLocaleString(n) ==
    IF n < 1000 THEN ToString(n)
    ELSE LET low == n % 1000
             pad == IF low < 10 THEN "00" ELSE IF low < 100 THEN "0" ELSE ""
         IN  toLocaleString(n \div 1000) \o "," \o pad \o ToString(low)

\* String.prototype.repeat
RECURSIVE Repeat(_, _)
Repeat(s, n) == IF n = 0 THEN "" ELSE s \o Repeat(s, n - 1)

\* the box-drawing rule character U+2500, one UTF-16 unit, written here
\* with an ASCII character of the same length
RuleChar == "-"

\* the author line with the pinned marker ahead of the other two
AuthorLine_PinnedFirst(c) ==
    "Author: "
    \o (IF "author" \in DOMAIN c /\ c.author # "" THEN c.author ELSE "Unknown")
    \o (IF "is_pinned" \in DOMAIN c /\ c.is_pinned THEN " [PINNED]" ELSE "")
    \o (IF "author_is_uploader" \in DOMAIN c /\ c.author_is_uploader
        THEN " [UPLOADER]" ELSE "")
    \o (IF "author_is_verified" \in DOMAIN c /\ c.author_is_verified
        THEN " [VERIFIED]" ELSE "")
    \o (IF "time_text" \in DOMAIN c /\ c.time_text # ""
        THEN " (" \o c.time_text \o ")" ELSE "")
    \o (IF "like_count" \in DOMAIN c /\ c.like_count > 0
        THEN " - " \o toLocaleString(c.like_count) \o " likes" ELSE "")

\* the author line of one comment
AuthorLine(c) ==
    "Author: "
    \o (IF "author" \in DOMAIN c /\ c.author # "" THEN c.author ELSE "Unknown")
    \o (IF "author_is_uploader" \in DOMAIN c /\ c.author_is_uploader
        THEN " [UPLOADER]" ELSE "")
    \o (IF "author_is_verified" \in DOMAIN c /\ c.author_is_verified
        THEN " [VERIFIED]" ELSE "")
    \o (IF "is_pinned" \in DOMAIN c /\ c.is_pinned THEN " [PINNED]" ELSE "")
    \o (IF "time_text" \in DOMAIN c /\ c.time_text # ""
        THEN " (" \o c.time_text \o ")" ELSE "")
    \o (IF "like_count" \in DOMAIN c /\ c.like_count > 0
        THEN " - " \o toLocaleString(c.like_count) \o " likes" ELSE "")

\* the lines pushed for one comment
CommentLines(c) ==
    <<AuthorLine(c)>>
    \o (IF "text" \in DOMAIN c /\ c.text # ""
        THEN <<IF Len(c.text) > 300 THEN SubSeq(c.text, 1, 300) \o "..."
               ELSE c.text>>
        ELSE <<>>)
    \o (IF "parent" \in DOMAIN c /\ c.parent # "" /\ c.parent # "root"
        THEN <<"(Reply to comment " \o c.parent \o ")">>
        ELSE <<>>)
    \o <<"">>

RECURSIVE CommentLinesFrom(_, _)
CommentLinesFrom(cs, i) ==
    IF i > Len(cs) THEN <<>>
    ELSE CommentLines(cs[i]) \o CommentLinesFrom(cs, i + 1)

\* the lines of the for loop over data.comments
AllCommentLines(cs) == CommentLinesFrom(cs, 1)

\* the text getVideoCommentsSummary builds from the parsed response
FormatSummary(data) ==
    Join(<<"Video Comments (" \o ToString(data.count) \o " shown)",
           Repeat(RuleChar, 30),
           "">>
         \o AllCommentLines(data.comments)
         \o (IF data.has_more
             THEN <<"---",
                    "More comments available. Increase maxComments to see more.">>
             ELSE <<>>),
         "\n")

\* the catch block wrapping what it caught in an Error of its own
SummaryCatch_Wrapped(error, u) ==
    IF error.isError
    THEN "Failed to generate comments summary for " \o u \o ": " \o error.message
    ELSE "Failed to generate comments summary for " \o u

\* the catch block of getVideoCommentsSummary
SummaryCatch(error, u) ==
    IF error.isError THEN error.message
    ELSE "Failed to generate comments summary for " \o u

-----------------------------------------------------------------------------
(* The comments pipeline as a state machine: one call at a time, suspended *)
(* while yt-dlp runs, then shaping its output.                             *)

\* comments as yt-dlp emits them: every member set and one outside the
\* schema; a reply with characters JSON escapes; an object with no members
FullComment ==
    [id |-> "Ugw1", text |-> "Great video!", author |-> "@ann",
     author_id |-> "UC1", author_url |-> "https://www.youtube.com/@ann",
     author_is_uploader |-> TRUE, author_is_verified |-> FALSE,
     like_count |-> 1234, is_pinned |-> TRUE, is_favorited |-> FALSE,
     parent |-> "root", timestamp |-> 1700000000, time_text |-> "2 days ago",
     author_thumbnail |-> "https://yt3.ggpht.com/a.jpg"]

ReplyComment ==
    [id |-> "Ugw2", text |-> "He said \"hi\"\nbye", like_count |-> 0,
     parent |-> "Ugw1"]

EmptyComment == [f \in {} |-> ""]

CommentPool == {FullComment, ReplyComment, EmptyComment}

SourceArrays ==
    UNION { [1..n -> CommentPool] : n \in 0..MaxSource }

\* what yt-dlp prints on success: a metadata document with a comments
\* array, one without, or text that is not JSON
ToolOutputs ==
    { [kind |-> "json", metadata |-> [id |-> "jNQXAC9IVRw", comments |-> cs]] :
        cs \in SourceArrays }
    \cup { [kind |-> "json", metadata |-> [id |-> "jNQXAC9IVRw"]],
           [kind |-> "text"] }

\* what _spawnPromise rejects with: an Error carrying yt-dlp's diagnostic
\* text, or a value that is not an Error
ToolFailures ==
    { [isError |-> TRUE, message |-> m] :
        m \in {"ERROR: [youtube] jNQXAC9IVRw: Video unavailable",
               "ERROR: This video is private; extractor gave up",
               "ERROR: Unsupported URL: https://example.com/video",
               "ERROR: No suitable extractor found on this webpage",
               "ERROR: network unreachable; Comments are turned off",
               "ERROR: Unable to download webpage: Connection refused",
               "ERROR: comments are disabled",
               "Comments are turned off on this webpage",
               "Private video. Sign in if you've been granted access",
               "ERROR: This content is age-restricted",
               "yt-dlp exited with code 1",
               ""} }
    \cup { [isError |-> FALSE, message |-> undefined] }

Urls == WellFormedUrls \cup {"invalid-url"}

MaxCommentsValues == {-1, 0, 1, 2, 20}

\* the Config objects callers pass: the limit decides how much fits
CallConfigs ==
    { NoConfig,
      [defaultConfig EXCEPT !.limits.characterLimit = 40],
      [defaultConfig EXCEPT !.limits.characterLimit = 250,
                            !.cookies.file = CookieFile],
      [defaultConfig EXCEPT !.limits.characterLimit = 600,
                            !.cookies.fromBrowser = "firefox::work"],
      [defaultConfig EXCEPT !.cookies.file = CookieFile,
                            !.cookies.fromBrowser = "chrome"] }

NoResponse == [none |-> TRUE]

\* nothing was caught
NoError == [none |-> TRUE]

CmtInit ==
    /\ entry = "none"
    /\ url = undefined
    /\ maxComments = 0
    /\ sortOrder = undefined
    /\ cfgArg = NoConfig
    /\ pc = "idle"
    /\ args = <<>>
    /\ spawnCount = 0
    /\ rawComments = <<>>
    /\ truncatedComments = <<>>
    /\ response = NoResponse
    /\ result = undefined
    /\ caught = NoError
    /\ thrown = undefined
    /\ spc = "idle"
    /\ summary = undefined
    /\ summaryThrown = undefined

\* a caller invokes getVideoComments(u, maxC, sort, cfg), or
\* getVideoCommentsSummary(u, maxC, cfg) which invokes it with "top"
Call(e, u, maxC, sort, cfg) ==
    /\ pc = "idle"
    /\ entry = "none"
    /\ e = "getVideoCommentsSummary" => sort = "top"
    /\ LET s == StartComments(u, maxC, sort, cfg)
       IN  /\ pc' = s.pc
           /\ thrown' = s.thrown
           /\ args' = s.args
           /\ spawnCount' = spawnCount + s.spawned
    /\ entry' = e
    /\ url' = u
    /\ maxComments' = maxC
    /\ sortOrder' = sort
    /\ cfgArg' = cfg
    /\ spc' = IF e = "getVideoCommentsSummary" THEN "awaiting" ELSE "idle"
    /\ UNCHANGED <<rawComments, truncatedComments, response, result, caught,
                   summary, summaryThrown>>

\* yt-dlp exits with status 0: the rest of the try block up to the size loop
ToolSucceeds(output) ==
    /\ pc = "awaiting"
    /\ IF output.kind # "json"
       THEN /\ pc' = "threw"
            /\ caught' = [isError |-> TRUE, message |-> JsonSyntaxError]
            /\ thrown' = ClassifyError(caught', url)
            /\ UNCHANGED <<rawComments, truncatedComments, response, result>>
       ELSE LET raw == IF "comments" \in DOMAIN output.metadata
                       THEN output.metadata.comments ELSE <<>>
                r   == BuildResponse(raw, maxComments)
                res == StringifyResponse(r)
            IN  /\ rawComments' = raw
                /\ response' = r
                /\ result' = res
                /\ UNCHANGED <<caught, thrown>>
                /\ IF OverLimit(res, cfgArg)
                   THEN /\ truncatedComments' = r.comments
                        /\ pc' = "loop"
                   ELSE /\ truncatedComments' = <<>>
                        /\ pc' = "returned"
    /\ UNCHANGED <<entry, url, maxComments, sortOrder, cfgArg, args, spawnCount,
                   spc, summary, summaryThrown>>

\* yt-dlp fails and the call runs it a second time before giving up
ToolFails_Retry(error) ==
    /\ pc = "awaiting"
    /\ IF spawnCount < 2
       THEN /\ pc' = "awaiting"
            /\ spawnCount' = spawnCount + 1
            /\ UNCHANGED <<caught, thrown>>
       ELSE /\ pc' = "threw"
            /\ caught' = error
            /\ thrown' = ClassifyError(error, url)
            /\ UNCHANGED spawnCount
    /\ UNCHANGED <<entry, url, maxComments, sortOrder, cfgArg, args,
                   rawComments, truncatedComments, response, result,
                   spc, summary, summaryThrown>>

\* yt-dlp fails: the catch block
ToolFails(error) ==
    /\ pc = "awaiting"
    /\ pc' = "threw"
    /\ caught' = error
    /\ thrown' = ClassifyError(error, url)
    /\ UNCHANGED <<entry, url, maxComments, sortOrder, cfgArg, args, spawnCount,
                   rawComments, truncatedComments, response, result,
                   spc, summary, summaryThrown>>

\* one pass of the while loop dropping the last two comments
LoopStep_DropTwo ==
    /\ pc = "loop"
    /\ LoopCondition(result, cfgArg, truncatedComments)
    /\ LET kept == Slice0(truncatedComments, -2)
           r    == TruncatedResponse(kept)
       IN  /\ truncatedComments' = kept
           /\ response' = r
           /\ result' = StringifyResponse(r)
    /\ UNCHANGED <<entry, url, maxComments, sortOrder, cfgArg, pc, args,
                   spawnCount, rawComments, caught, thrown, spc, summary,
                   summaryThrown>>

\* one pass of the while loop: drop the last comment and serialize again
LoopStep ==
    /\ pc = "loop"
    /\ LoopCondition(result, cfgArg, truncatedComments)
    /\ LET kept == Slice0(truncatedComments, -1)
           r    == TruncatedResponse(kept)
       IN  /\ truncatedComments' = kept
           /\ response' = r
           /\ result' = StringifyResponse(r)
    /\ UNCHANGED <<entry, url, maxComments, sortOrder, cfgArg, pc, args,
                   spawnCount, rawComments, caught, thrown, spc, summary,
                   summaryThrown>>

\* the while test fails: return result
LoopExit ==
    /\ pc = "loop"
    /\ ~LoopCondition(result, cfgArg, truncatedComments)
    /\ pc' = "returned"
    /\ UNCHANGED <<entry, url, maxComments, sortOrder, cfgArg, args, spawnCount,
                   rawComments, truncatedComments, response, result, caught,
                   thrown, spc, summary, summaryThrown>>

\* getVideoCommentsSummary resumes when getVideoComments has settled
SummaryResume ==
    /\ spc = "awaiting"
    /\ pc \in {"returned", "threw"}
    /\ IF pc = "returned"
       THEN /\ summary' = FormatSummary(ParseResponse(response))
            /\ spc' = "returned"
            /\ UNCHANGED summaryThrown
       ELSE /\ summaryThrown' = SummaryCatch([isError |-> TRUE, message |-> thrown],
                                             url)
            /\ spc' = "threw"
            /\ UNCHANGED summary
    /\ UNCHANGED <<entry, url, maxComments, sortOrder, cfgArg, pc, args,
                   spawnCount, rawComments, truncatedComments, response, result,
                   caught, thrown>>

\* the caller has the outcome of its call; the next call starts afresh
Settled ==
    \/ entry = "getVideoComments" /\ pc \in {"returned", "threw"}
    \/ entry = "getVideoCommentsSummary" /\ spc \in {"returned", "threw"}

Finish ==
    /\ Settled
    /\ entry' = "none"
    /\ url' = undefined
    /\ maxComments' = 0
    /\ sortOrder' = undefined
    /\ cfgArg' = NoConfig
    /\ pc' = "idle"
    /\ args' = <<>>
    /\ spawnCount' = 0
    /\ rawComments' = <<>>
    /\ truncatedComments' = <<>>
    /\ response' = NoResponse
    /\ result' = undefined
    /\ caught' = NoError
    /\ thrown' = undefined
    /\ spc' = "idle"
    /\ summary' = undefined
    /\ summaryThrown' = undefined

CmtNext ==
    \/ \E e \in {"getVideoComments", "getVideoCommentsSummary"}, u \in Urls,
          maxC \in MaxCommentsValues, sort \in {"top", "new"},
          cfg \in CallConfigs : Call(e, u, maxC, sort, cfg)
    \/ \E output \in ToolOutputs : ToolSucceeds(output)
    \/ \E error \in ToolFailures : ToolFails(error)
    \/ LoopStep
    \/ LoopExit
    \/ SummaryResume
    \/ Finish

-----------------------------------------------------------------------------
(* config.ts: sanitizeFilename *)

UpperChar(c) ==
    IF IsLower(c)
    THEN CharAt(UpperLetters, CHOOSE i \in 1..26 : CharAt(LowerLetters, i) = c)
    ELSE c

\* the characters lo..hi of s, each upper-cased
RECURSIVE UpperRange(_, _, _)
UpperRange(s, lo, hi) ==
    IF lo > hi THEN ""
    ELSE IF lo = hi THEN UpperChar(CharAt(s, lo))
    ELSE UpperRange(s, lo, (lo + hi) \div 2)
         \o UpperRange(s, (lo + hi) \div 2 + 1, hi)

\* String.prototype.toUpperCase
toUpperCase(s) == UpperRange(s, 1, Len(s))

\* the control characters \x00-\x1F a TLA+ string can hold
ControlChars == {"\t", "\n", "\r", "\f"}

\* the characters a character-class body matches from position i on:
\* \\ is a backslash, \x00-\x1F the control range, any other character
\* stands for itself
RECURSIVE ClassFrom(_, _)
ClassFrom(body, i) ==
    IF i > Len(body) THEN {}
    ELSE IF i + 8 <= Len(body) /\ SubSeq(body, i, i + 8) = "\\x00-\\x1F"
    THEN ControlChars \cup ClassFrom(body, i + 9)
    ELSE IF CharAt(body, i) = "\\" /\ i < Len(body)
    THEN {CharAt(body, i + 1)} \cup ClassFrom(body, i + 2)
    ELSE {CharAt(body, i)} \cup ClassFrom(body, i + 1)

\* the characters the pattern /[...]/ matches
ClassMembers(re) == ClassFrom(SubSeq(re.source, 2, Len(re.source) - 1), 1)

\* the characters lo..hi of s with every member of cls replaced by rep
RECURSIVE ReplaceRange(_, _, _, _, _)
ReplaceRange(s, cls, rep, lo, hi) ==
    IF lo > hi THEN ""
    ELSE IF lo = hi
    THEN (IF CharAt(s, lo) \in cls THEN rep ELSE CharAt(s, lo))
    ELSE ReplaceRange(s, cls, rep, lo, (lo + hi) \div 2)
         \o ReplaceRange(s, cls, rep, (lo + hi) \div 2 + 1, hi)

\* String.prototype.replace(re, rep): every match with the g flag, the
\* first match only without it
Replace(s, re, rep) ==
    LET cls == ClassMembers(re)
        hits == {i \in 1..Len(s) : CharAt(s, i) \in cls}
    IN  IF re.global THEN ReplaceRange(s, cls, rep, 1, Len(s))
        ELSE IF hits = {} THEN s
        ELSE LET k == CHOOSE i \in hits : \A j \in hits : i <= j
             IN  SubSeq(s, 1, k - 1) \o rep \o SubSeq(s, k + 1, Len(s))

\* the last path segment: what follows the last "/"
Basename(p) ==
    LET slashes == {i \in 1..Len(p) : CharAt(p, i) = "/"}
    IN  IF slashes = {} THEN p
        ELSE SubSeq(p, (CHOOSE i \in slashes : \A j \in slashes : j <= i) + 1, Len(p))

\* path.extname(p): from the last "." of the basename on; empty when the
\* basename has no ".", starts with its only "." or is ".."
extname(p) ==
    LET b    == Basename(p)
        dots == {i \in 1..Len(b) : CharAt(b, i) = "."}
        last == CHOOSE i \in dots : \A j \in dots : j <= i
    IN  IF dots = {} \/ b = ".." THEN ""
        ELSE IF last = 1 THEN ""
        ELSE SubSeq(b, last, Len(b))

\* path.parse(p).name: the basename without its extension
ParsedName(p) ==
    LET b == Basename(p)
    IN  SubSeq(b, 1, Len(b) - Len(extname(p)))

\* String.prototype.slice(0, end): a negative end counts from the end
StrSlice0(s, end) ==
    LET n == Len(s)
        e == IF end < 0 THEN (IF n + end < 0 THEN 0 ELSE n + end)
             ELSE IF end > n THEN n ELSE end
    IN  SubSeq(s, 1, e)

\* sanitizeFilename up to the length check: illegal characters replaced,
\* a reserved name prefixed with "_"
Prepared(filename, cfg) ==
    LET safe == Replace(filename, cfg.sanitize.illegalChars, cfg.sanitize.replaceChar)
        basename == toUpperCase(ParsedName(safe))
    IN  IF SeqIncludes(cfg.sanitize.reservedNames, basename)
        THEN "_" \o safe ELSE safe

\* sanitizeFilename(filename, config)
sanitizeFilename(filename, cfg) ==
    LET safe == Prepared(filename, cfg)
    IN  IF Len(safe) > cfg.maxFilenameLength
        THEN LET ext  == extname(safe)
                 name == StrSlice0(safe, cfg.maxFilenameLength - Len(ext)
                                         - Len(cfg.sanitize.truncateSuffix))
             IN  name \o cfg.sanitize.truncateSuffix \o ext
        ELSE safe

\* names callers sanitize: titles with illegal characters, reserved device
\* names, names longer than the limit, with short and long extensions
Filenames ==
    {"video.mp4", "a<b>c.mp4", "what?:why*.mkv", "con", "CON.txt", "nul.mp4",
     "a/b\\c.mp4", "my video title [1080p].mp4", "clip.webm", "clip.part.webm",
     "archive.tar.gz", "audio-track-01.m4a", "notes", "averyveryverylongname",
     ".hidden", "..", "x.", "tab\there.mp4", "<<<>>>", "q.subtitle"}

\* the file configuration of a load under environment e
EnvFileConfig(e) == mergeConfig(defaultConfig, loadEnvConfig(e)).file

\* file configurations that pass validateConfig: the default, those a
\* sanitize or length variable of the environment gives, and hand-built
\* ones with the smallest lengths allowed
FileConfigs ==
    UNION { { EnvFileConfig([originalEnv EXCEPT ![n] = v]) :
                v \in EnvValues(n) \cup {undefined} } :
            n \in {"YTDLP_SANITIZE_ILLEGAL_CHARS", "YTDLP_SANITIZE_TRUNCATE_SUFFIX",
                   "YTDLP_SANITIZE_REPLACE_CHAR", "YTDLP_SANITIZE_RESERVED_NAMES"} }
    \cup { [defaultConfig.file EXCEPT !.maxFilenameLength = n,
                                      !.sanitize.truncateSuffix = sfx] :
             n \in {5, 8, 12}, sfx \in {"...", "~"} }

SanInit ==
    /\ sfPhase = "idle"
    /\ sfName = ""
    /\ sfConfig = defaultConfig.file
    /\ sfResult = ""

\* sanitizeFilename(filename, cfg) called and returned
Sanitize(filename, cfg) ==
    /\ sfPhase' = "done"
    /\ sfName' = filename
    /\ sfConfig' = cfg
    /\ sfResult' = sanitizeFilename(filename, cfg)

SanNext == \E filename \in Filenames, cfg \in FileConfigs : Sanitize(filename, cfg)

-----------------------------------------------------------------------------
(* config.ts: the life of the module after its import.  defaultConfig is   *)
(* one object for as long as the module is loaded; importers read CONFIG   *)
(* and may call the exported loadConfig() again at any time.               *)

\* mergeConfig reusing base's cookies object for its result
MergedFresh_CookiesShared ==
    {"config", "file", "sanitize", "tools", "download", "limits"}

\* the objects of mergeConfig's result that are new object literals; the
\* arrays and the RegExp are those of base or override
MergedFresh ==
    {"config", "file", "sanitize", "tools", "download", "limits", "cookies"}

\* loadConfig() run against the module's defaultConfig as it is now: the
\* outcome, and defaultConfig as the call leaves it.  validateCookiesConfig
\* assigns to the cookies object of the merged Config, which defaultConfig
\* sees only if that object is its own.
loadConfigOn(base, e, fs) ==
    LET r == validateConfig(mergeConfig(base, loadEnvConfig(e)), fs)
    IN  [threw    |-> r.threw,
         config   |-> IF r.threw = undefined THEN r.config ELSE NoConfig,
         warnings |-> r.warnings,
         base     |-> IF "cookies" \in MergedFresh \/ r.threw # undefined
                      THEN base
                      ELSE [base EXCEPT !.cookies = r.config.cookies]]

\* CONFIG as a binding evaluated again by every reader
CONFIG_Reloaded ==
    IF phase = "loaded" THEN loadConfigOn(defaultConfig, env, files).config
    ELSE config

\* export const CONFIG = loadConfig(): the object built by the import
CONFIG == config

\* the variables that change while the server runs: the two cookie
\* variables, whose validation writes to the Config, and one whose value
\* makes loadConfig() throw
LifeEnvVars ==
    {"YTDLP_COOKIES_FILE", "YTDLP_COOKIES_FROM_BROWSER", "YTDLP_MAX_FILENAME_LENGTH"}

LifeEnvValues(name) ==
    CASE name = "YTDLP_COOKIES_FILE" -> {CookieFile}
      [] name = "YTDLP_COOKIES_FROM_BROWSER" -> {"Chrome"}
      [] name = "YTDLP_MAX_FILENAME_LENGTH" -> {"3"}

\* no loadConfig() call remembered
NoCall == [called |-> FALSE]

LifeInit ==
    /\ defaults = defaultConfig
    /\ refCall = NoCall
    /\ lastCall = NoCall
    /\ between = FALSE

\* import of config.ts: defaultConfig is built, then CONFIG = loadConfig()
Import ==
    /\ LoadConfig
    /\ defaults' = loadConfigOn(defaultConfig, env, files).base
    /\ UNCHANGED <<refCall, lastCall, between>>

\* process.env.NAME = v, or delete process.env.NAME, while the server runs
ChangeEnv(name, v) ==
    /\ phase = "loaded"
    /\ env[name] # v
    /\ NumSet([env EXCEPT ![name] = v]) <= MaxEnvSet
    /\ env' = [env EXCEPT ![name] = v]
    /\ UNCHANGED <<files, phase, config, loadError, warnings, argConfig,
                   cookieArgs, defaults, refCall, lastCall, between>>

\* an importer calls loadConfig(); remember says whether the observer
\* keeps this call as the one later calls are compared with
CallLoadConfig(remember) ==
    /\ phase = "loaded"
    /\ LET r    == loadConfigOn(defaults, env, files)
           call == [called |-> TRUE, env |-> env, files |-> files,
                    threw |-> r.threw, config |-> r.config]
       IN  /\ defaults' = r.base
           /\ lastCall' = call
           /\ refCall' = IF remember THEN call ELSE refCall
           /\ between' =
                IF remember THEN FALSE
                ELSE \/ between
                     \/ /\ refCall # NoCall
                        /\ refCall.env # env
                        /\ r.warnings # <<>>
    /\ UNCHANGED <<env, files, phase, config, loadError, warnings, argConfig,
                   cookieArgs>>

LifeNext ==
    \/ /\ \E name \in LifeEnvVars : \E v \in LifeEnvValues(name) : SetEnv(name, v)
       /\ UNCHANGED lifeVars
    \/ CreateCookieFile /\ UNCHANGED lifeVars
    \/ RemoveCookieFile /\ UNCHANGED lifeVars
    \/ Import
    \/ \E name \in LifeEnvVars :
          \E v \in LifeEnvValues(name) \cup {undefined} : ChangeEnv(name, v)
    \/ \E remember \in BOOLEAN : CallLoadConfig(remember)

-----------------------------------------------------------------------------
(* modules/comments.ts: concurrent calls.  JavaScript runs a call without  *)
(* interruption from one await to the next, so a call is three steps: up   *)
(* to the await of yt-dlp, from yt-dlp's result to the return or throw of  *)
(* getVideoComments, and the continuation of getVideoCommentsSummary.      *)
(* All calls are handed the same Config object.                            *)

CallIds == 1..MaxCalls

\* the outcome of a call: nothing yet, a returned string, a thrown Error
NoOutcome == [kind |-> "pending"]
Returned(value, parsed) == [kind |-> "returned", value |-> value, parsed |-> parsed]
Threw(message) == [kind |-> "threw", value |-> message, parsed |-> NoResponse]

NoFrame == [live |-> FALSE]
NoTool == [kind |-> "none"]

\* parameters and locals kept in one module-level record
FrameOf_Module(i) == 1

\* where call i keeps url, maxComments and sortOrder: they are parameters,
\* so every invocation has a frame of its own
FrameOf(i) == i

\* the while loop run to its end: the serialized response it leaves
RECURSIVE SizeLoop(_, _, _)
SizeLoop(res, kept, cfg) ==
    IF LoopCondition(res, cfg, kept)
    THEN LET shorter == Slice0(kept, -1)
         IN  SizeLoop(StringifyResponse(TruncatedResponse(shorter)), shorter, cfg)
    ELSE [result |-> res, kept |-> kept]

\* getVideoComments from the result of yt-dlp to its return or throw, with
\* the parameters of frame f
ResumeComments(f, cfg, tool) ==
    IF tool.kind = "failure" THEN Threw(ClassifyError(tool.error, f.url))
    ELSE IF tool.output.kind # "json"
    THEN Threw(ClassifyError([isError |-> TRUE, message |-> JsonSyntaxError], f.url))
    ELSE LET raw == IF "comments" \in DOMAIN tool.output.metadata
                    THEN tool.output.metadata.comments ELSE <<>>
             r   == BuildResponse(raw, f.maxComments)
             res == StringifyResponse(r)
         IN  IF OverLimit(res, cfg)
             THEN LET end == SizeLoop(res, r.comments, cfg)
                  IN  Returned(end.result,
                               IF end.kept = r.comments THEN r
                               ELSE TruncatedResponse(end.kept))
             ELSE Returned(res, r)

\* getVideoCommentsSummary from the settling of getVideoComments on
ResumeSummary(f, comments) ==
    IF comments.kind = "returned"
    THEN Returned(FormatSummary(ParseResponse(comments.parsed)), NoResponse)
    ELSE Threw(SummaryCatch([isError |-> TRUE, message |-> comments.value], f.url))

\* what yt-dlp gives a call: output on success, a rejection on failure
ConTools ==
    { [kind |-> "success",
       output |-> [kind |-> "json",
                   metadata |-> [id |-> "jNQXAC9IVRw",
                                 comments |-> <<FullComment, ReplyComment>>]]],
      [kind |-> "failure",
       error |-> [isError |-> TRUE,
                  message |-> "ERROR: [youtube] jNQXAC9IVRw: Video unavailable"]] }

ConMaxComments == {1, 2}

\* the Config objects a server hands to all its calls
ConConfigs ==
    { [defaultConfig EXCEPT !.limits.characterLimit = 600,
                            !.cookies.fromBrowser = "firefox::work"],
      defaultConfig }

ConInit ==
    /\ shared = NoConfig
    /\ asked = [i \in CallIds |-> NoFrame]
    /\ frames = [i \in CallIds |-> NoFrame]
    /\ cpc = [i \in CallIds |-> "idle"]
    /\ tools = [i \in CallIds |-> NoTool]
    /\ inner = [i \in CallIds |-> NoOutcome]
    /\ outcome = [i \in CallIds |-> NoOutcome]

\* the server builds the Config all calls are given
ConShare(cfg) ==
    /\ shared = NoConfig
    /\ shared' = cfg
    /\ UNCHANGED <<asked, frames, cpc, tools, inner, outcome>>

\* call i is made: e(u, maxC, ..., shared) runs up to its first await.
\* asked is the caller's own note of the call and of whether another call
\* was in flight when it started.
ConCall(i, e, u, maxC, sort) ==
    /\ shared # NoConfig
    /\ cpc[i] = "idle"
    /\ LET f == [live |-> TRUE, url |-> u, maxComments |-> maxC, sortOrder |-> sort]
           s == StartComments(u, maxC, sort, shared)
       IN  /\ frames' = [frames EXCEPT ![FrameOf(i)] = f]
           /\ asked' = [asked EXCEPT ![i] =
                          [live |-> TRUE, entry |-> e, url |-> u,
                           maxComments |-> maxC, sortOrder |-> sort,
                           overlapped |-> \E j \in CallIds :
                                            cpc[j] \in {"awaiting", "inner"}]]
           /\ IF s.pc = "awaiting"
              THEN /\ cpc' = [cpc EXCEPT ![i] = "awaiting"]
                   /\ UNCHANGED <<inner, outcome>>
              ELSE IF e = "getVideoComments"
              THEN /\ cpc' = [cpc EXCEPT ![i] = "settled"]
                   /\ outcome' = [outcome EXCEPT ![i] = Threw(s.thrown)]
                   /\ UNCHANGED inner
              ELSE /\ cpc' = [cpc EXCEPT ![i] = "inner"]
                   /\ inner' = [inner EXCEPT ![i] = Threw(s.thrown)]
                   /\ UNCHANGED outcome
    /\ UNCHANGED <<shared, tools>>

\* yt-dlp settles for call i: getVideoComments runs to its return or throw
ConToolSettles(i, t) ==
    /\ cpc[i] = "awaiting"
    /\ tools' = [tools EXCEPT ![i] = t]
    /\ LET o == ResumeComments(frames[FrameOf(i)], shared, t)
       IN  IF asked[i].entry = "getVideoComments"
           THEN /\ cpc' = [cpc EXCEPT ![i] = "settled"]
                /\ outcome' = [outcome EXCEPT ![i] = o]
                /\ UNCHANGED inner
           ELSE /\ cpc' = [cpc EXCEPT ![i] = "inner"]
                /\ inner' = [inner EXCEPT ![i] = o]
                /\ UNCHANGED outcome
    /\ UNCHANGED <<shared, asked, frames>>

\* getVideoCommentsSummary of call i resumes after its getVideoComments
ConSummaryResumes(i) ==
    /\ cpc[i] = "inner"
    /\ cpc' = [cpc EXCEPT ![i] = "settled"]
    /\ outcome' = [outcome EXCEPT ![i] =
                      ResumeSummary(frames[FrameOf(i)], inner[i])]
    /\ UNCHANGED <<shared, asked, frames, tools, inner>>

ConNext ==
    \/ \E cfg \in ConConfigs : ConShare(cfg)
    \/ \E i \in CallIds, u \in Urls, maxC \in ConMaxComments :
          \/ ConCall(i, "getVideoComments", u, maxC, "top")
          \/ ConCall(i, "getVideoCommentsSummary", u, maxC, "top")
    \/ \E i \in CallIds, t \in ConTools : ConToolSettles(i, t)
    \/ \E i \in CallIds : ConSummaryResumes(i)

-----------------------------------------------------------------------------
(* getVideoCommentsSummary: the author line of one comment.  The comment   *)
(* is one yt-dlp emitted; the summary sees it as getVideoComments          *)
(* projected and serialized it and JSON.parse read it back.                *)

\* a member that is missing, or present with one of the values
Optional(values) == {<<>>} \cup {<<v>> : v \in values}

\* the comment whose members are the options that are present
CommentOf(options) ==
    [f \in {g \in DOMAIN options : options[g] # <<>>} |-> options[f][1]]

\* comments differing in the members the author line reads
LineComments ==
    { CommentOf([author |-> a, author_is_uploader |-> u,
                 author_is_verified |-> v, is_pinned |-> p,
                 time_text |-> t, like_count |-> l]) :
        a \in Optional({"", "@ann"}),
        u \in Optional(BOOLEAN), v \in Optional(BOOLEAN), p \in Optional(BOOLEAN),
        t \in Optional({"", "2 days ago"}),
        l \in Optional({0, 7, 1234}) }

\* the element of data.comments the summary iterates over for a comment
\* of the tool's output
SummaryComment(c) == ParseComment(ProjectComment(c))

LineInit ==
    /\ lnPhase = "idle"
    /\ lnComment = EmptyComment
    /\ lnLine = ""

\* one pass of the for loop up to lines.push(authorLine)
RenderLine(c) ==
    /\ lnPhase' = "done"
    /\ lnComment' = c
    /\ lnLine' = AuthorLine(SummaryComment(c))

LineNext == \E c \in LineComments : RenderLine(c)

-----------------------------------------------------------------------------
(* Specifications *)

Init == CfgInit /\ CmtInit /\ SanInit /\ LifeInit /\ ConInit /\ LineInit

\* the configuration resolver
ConfigSpec ==
    Init /\ [][CfgNext /\ UNCHANGED <<cmtVars, sanVars, lifeVars, conVars, lineVars>>]_vars

\* the comments pipeline
CommentsSpec ==
    Init /\ [][CmtNext /\ UNCHANGED <<cfgVars, sanVars, lifeVars, conVars, lineVars>>]_vars

\* sanitizeFilename applied to a name under a file configuration
SanitizeSpec ==
    Init /\ [][SanNext /\ UNCHANGED <<cfgVars, cmtVars, lifeVars, conVars, lineVars>>]_vars

\* the module from its import on, under a changing environment
LifecycleSpec ==
    Init /\ [][LifeNext /\ UNCHANGED <<cmtVars, sanVars, conVars, lineVars>>]_vars

\* the author line of the summary built for one comment
AuthorLineSpec ==
    Init /\ [][LineNext /\ UNCHANGED <<cfgVars, cmtVars, sanVars, lifeVars, conVars>>]_vars

\* concurrent comment calls sharing one Config
ConcurrentSpec ==
    Init /\ [][ConNext /\ UNCHANGED <<cfgVars, cmtVars, sanVars, lifeVars, lineVars>>]_vars

-----------------------------------------------------------------------------
(* Properties of the configuration resolver (ConfigSpec) *)

\* the two cookie members of the Config handed to getCookieArgs
ArgFile == IF "cookies" \in DOMAIN argConfig THEN argConfig.cookies.file
           ELSE undefined
ArgBrowser == IF "cookies" \in DOMAIN argConfig THEN argConfig.cookies.fromBrowser
              ELSE undefined

\* C1: getCookieArgs returns [] when neither cookie field is set, exactly
\* ["--cookies", F] when file = F whether or not fromBrowser is set, exactly
\* ["--cookies-from-browser", B] when only fromBrowser = B is set; the
\* result always has length 0 or 2.
C1_CookieArgsContract ==
    argConfig # NoConfig =>
        /\ (~Truthy(ArgFile) /\ ~Truthy(ArgBrowser)) => cookieArgs = <<>>
        /\ Truthy(ArgFile) => cookieArgs = <<"--cookies", ArgFile>>
        /\ (~Truthy(ArgFile) /\ Truthy(ArgBrowser)) =>
               cookieArgs = <<"--cookies-from-browser", ArgBrowser>>
        /\ Len(cookieArgs) \in {0, 2}

\* getCookieArgs ran on a Config with both fields set and the file won
C1_FileWinsReached ==
    /\ argConfig # NoConfig
    /\ Truthy(ArgFile)
    /\ Truthy(ArgBrowser)
    /\ cookieArgs = <<"--cookies", ArgFile>>

EnvFile == env["YTDLP_COOKIES_FILE"]
EnvBrowser == env["YTDLP_COOKIES_FROM_BROWSER"]

NineBrowsers ==
    {"brave", "chrome", "chromium", "edge", "firefox", "opera", "safari",
     "vivaldi", "whale"}

\* the value names one of the nine browsers, in any letter case, alone or
\* followed by a colon and anything
NamesValidBrowser(b) ==
    LET lb == toLowerCase(b)
    IN  \E n \in NineBrowsers :
            \/ lb = n
            \/ Len(lb) > Len(n) /\ SubSeq(lb, 1, Len(n) + 1) = n \o ":"

HasWarning(ws, text) == \E i \in 1..Len(ws) : Includes(ws[i], text)

\* C8: after loadConfig, a fromBrowser value whose token before the first
\* ':' is, lower-cased, one of the nine browser names is kept verbatim;
\* any other value leaves fromBrowser undefined and a warning containing
\* "Invalid browser name" logged.
C8_BrowserValidation ==
    (phase = "loaded" /\ Truthy(EnvBrowser)) =>
        IF NamesValidBrowser(EnvBrowser)
        THEN config.cookies.fromBrowser = EnvBrowser
        ELSE /\ config.cookies.fromBrowser = undefined
             /\ HasWarning(warnings, "Invalid browser name")

\* a browser value written with a capital was loaded and kept as typed
C8_MixedCaseKept ==
    /\ phase = "loaded"
    /\ EnvBrowser = "Chrome"
    /\ config.cookies.fromBrowser = "Chrome"
    /\ warnings = <<>>

\* the step in which the module load runs loadConfig
LoadStep == phase = "setup" /\ phase' # "setup"

\* C9: when loadConfig runs with a cookie file path that does not exist,
\* the configuration it returns has cookies.file undefined and a warning
\* containing "Cookie file not found" is logged; when the path exists,
\* cookies.file is the path unchanged.
C9_CookieFileValidation ==
    [][(LoadStep /\ phase' = "loaded" /\ Truthy(EnvFile)) =>
          IF EnvFile \in files
          THEN config'.cookies.file = EnvFile
          ELSE /\ config'.cookies.file = undefined
               /\ HasWarning(warnings', "Cookie file not found")]_vars

\* a load with a cookie file path that does not exist has happened
C9_MissingFileCleared ==
    /\ phase = "loaded"
    /\ EnvFile = MissingFile
    /\ config.cookies.file = undefined
    /\ HasWarning(warnings, "Cookie file not found")

\* the configuration as resolved from defaults and environment, before
\* any validation
Resolved == mergeConfig(defaultConfig, loadEnvConfig(env))

\* every field other than the cookies passes its structural rule
OtherFieldsValid ==
    /\ Resolved.file.maxFilenameLength >= 5
    /\ Resolved.file.downloadsDir # ""
    /\ Resolved.file.tempDirPrefix # ""
    /\ Resolved.download.defaultResolution \in {"480p", "720p", "1080p", "best"}
    /\ Resolved.download.defaultAudioFormat \in {"m4a", "mp3"}
    /\ LanguageTagTest(Resolved.download.defaultSubtitleLanguage)

NonCookieFields(c) ==
    [file |-> c.file, tools |-> c.tools, download |-> c.download,
     limits |-> c.limits]

\* C10: cookie misconfiguration never fails the load: with all other
\* fields valid, loadConfig returns a Configuration whatever the cookie
\* settings; a cookie field is cleared exactly when it is the offending
\* one, the other cookie field and all non-cookie fields are as resolved.
C10_CookiesNeverFailLoad ==
    [][(LoadStep /\ OtherFieldsValid) =>
          /\ phase' = "loaded"
          /\ loadError' = undefined
          /\ NonCookieFields(config') = NonCookieFields(Resolved)
          /\ config'.cookies.file =
                IF Truthy(EnvFile) /\ EnvFile \in files THEN EnvFile
                ELSE undefined
          /\ config'.cookies.fromBrowser =
                IF Truthy(EnvBrowser) /\ NamesValidBrowser(EnvBrowser)
                THEN EnvBrowser ELSE undefined]_vars

\* a load with a missing cookie file and a valid browser has returned,
\* only the file cleared
C10_OnlyOffenderCleared ==
    /\ phase = "loaded"
    /\ EnvFile = MissingFile
    /\ EnvBrowser = "firefox::work"
    /\ config.cookies.file = undefined
    /\ config.cookies.fromBrowser = "firefox::work"

-----------------------------------------------------------------------------
(* Properties of the comments pipeline (CommentsSpec) *)

\* the configured ceiling of the call in progress
Limit == cfgArg.limits.characterLimit

\* the number of comments retained after the maxComments cap
Retained == Len(Slice0(rawComments, maxComments))

\* the number of comments the size loop has dropped so far
Dropped == Retained - Len(response.comments)

HasResponse == pc \in {"loop", "returned"}

\* C2 as claimed: whenever the first serialization was longer than the
\* limit, the returned response fits the limit or holds exactly 1 comment.
C2_FitsOrExactlyOne ==
    (pc = "returned" /\ cfgArg # NoConfig
        /\ Len(StringifyResponse(BuildResponse(rawComments, maxComments))) > Limit)
    => (Len(result) <= Limit \/ Len(response.comments) = 1)

\* C2, amended: once the first serialization is longer than the limit the
\* size loop terminates, and the returned response fits the limit, or
\* holds exactly 1 comment, or holds none because none was retained.
\* Termination is by the variant Len(truncatedComments): a response is
\* returned without the loop only if it fits, and every step taken inside
\* the loop either shortens the list by one, never below one comment, or
\* returns such a response.
C2_LoopTerminates ==
    [][/\ (pc = "awaiting" /\ pc' = "returned" /\ cfgArg # NoConfig) =>
              Len(result') <= Limit
       /\ pc = "loop" =>
              \/ /\ pc' = "loop"
                 /\ Len(truncatedComments') = Len(truncatedComments) - 1
                 /\ Len(truncatedComments') >= 1
              \/ /\ pc' = "returned"
                 /\ \/ Len(result') <= Limit
                    \/ Len(response'.comments) = 1
                    \/ Retained = 0 /\ Len(response'.comments) = 0]_vars

\* the loop ran down to one comment that is still over the limit
C2_OneCommentOversized ==
    /\ pc = "returned"
    /\ cfgArg # NoConfig
    /\ Retained >= 2
    /\ Len(response.comments) = 1
    /\ Len(result) > Limit

\* C3: in a returned response has_more is true exactly when the source
\* array was longer than maxComments or the size loop dropped a comment;
\* so it is true whenever the source count exceeds maxComments.
C3_HasMore ==
    pc = "returned" =>
        /\ response.has_more <=> (Len(rawComments) > maxComments \/ Dropped >= 1)
        /\ Len(rawComments) > maxComments => response.has_more

\* a response whose has_more comes from the size loop alone
C3_HasMoreByTruncationOnly ==
    /\ pc = "returned"
    /\ maxComments >= Len(rawComments)
    /\ Dropped >= 1
    /\ response.has_more

\* C4: a returned response carries _truncated = true and a _message if and
\* only if the size loop dropped at least one comment; otherwise it has
\* neither member.
C4_TruncationMarkers ==
    pc = "returned" =>
        IF Dropped >= 1
        THEN /\ "_truncated" \in DOMAIN response
             /\ response._truncated = TRUE
             /\ "_message" \in DOMAIN response
        ELSE /\ "_truncated" \notin DOMAIN response
             /\ "_message" \notin DOMAIN response

\* a capped response that the size loop never shortened, returned without
\* the two members
C4_CappedNotTruncated ==
    /\ pc = "returned"
    /\ Len(rawComments) > maxComments
    /\ maxComments >= 1
    /\ Dropped = 0
    /\ "_truncated" \notin DOMAIN response

\* the members of the Comment schema read off a source comment and off a
\* response comment agree
SameComment(src, out) ==
    \A f \in KnownFieldSet :
        IF f \in DOMAIN src THEN out[f] = <<src[f]>> ELSE out[f] = <<>>

\* C5: for maxComments >= 0 the comments of the response, before and after
\* size truncation, are a prefix of the source array in source order,
\* count is the number of comments included, and count <= maxComments.
C5_PrefixAndCount ==
    (HasResponse /\ maxComments >= 0) =>
        /\ Len(response.comments) <= Len(rawComments)
        /\ \A i \in 1..Len(response.comments) :
               SameComment(rawComments[i], response.comments[i])
        /\ response.count = Len(response.comments)
        /\ response.count <= maxComments

\* a response of two comments left by the size loop from a source of three
\* different comments
C5_TruncatedPrefix ==
    /\ pc = "returned"
    /\ maxComments >= 0
    /\ Len(rawComments) = 3
    /\ rawComments[1] # rawComments[2]
    /\ Dropped = 1
    /\ Len(response.comments) = 2

\* the classification table: the substrings of each rule and its message
ErrorRules(u) ==
    << [subs |-> {"Video unavailable", "private"},
        msg  |-> "Video is unavailable or private: " \o u
                 \o ". Check the URL and video privacy settings."],
       [subs |-> {"Unsupported URL", "extractor"},
        msg  |-> "Unsupported platform or video URL: " \o u
                 \o ". Comments extraction is primarily supported for YouTube."],
       [subs |-> {"network", "Connection"},
        msg  |-> "Network error while extracting comments. Check your internet connection and retry."],
       [subs |-> {"comments are disabled", "Comments are turned off"},
        msg  |-> "Comments are disabled for this video: " \o u],
       [subs |-> {"Sign in", "age"},
        msg  |-> "This video requires authentication to view comments. Configure cookies in your settings."] >>

RuleMatches(rule, text) == \E sub \in rule.subs : Includes(text, sub)

MatchingRules(text, u) ==
    {i \in 1..Len(ErrorRules(u)) : RuleMatches(ErrorRules(u)[i], text)}

\* C6: the message thrown for a caught failure is that of the first rule,
\* in table order, one of whose substrings occurs in the failure's text;
\* for a text matching no rule the generic message quoting it; for a
\* failure that is not an Error the message naming the url.
C6_ErrorClassification ==
    caught # NoError =>
        /\ pc = "threw"
        /\ IF ~caught.isError
           THEN thrown = "Failed to extract video comments from " \o url
           ELSE IF MatchingRules(caught.message, url) = {}
           THEN thrown = "Failed to extract video comments: " \o caught.message
                         \o ". Verify the URL is correct."
           ELSE \E i \in MatchingRules(caught.message, url) :
                   /\ \A j \in MatchingRules(caught.message, url) : i <= j
                   /\ thrown = ErrorRules(url)[i].msg

\* a failure whose text matches the second and the fifth rule was given
\* the message of the second
C6_EarliestRuleWins ==
    /\ caught # NoError
    /\ caught.isError
    /\ MatchingRules(caught.message, url) = {2, 5}
    /\ thrown = ErrorRules(url)[2].msg

\* C7: for a URL that fails validateUrl, getVideoComments, called directly
\* or through getVideoCommentsSummary, fails with the invalid-URL error
\* without any invocation of yt-dlp, and the error does not pass through
\* the classification of the catch block.
C7_InvalidUrlNoSpawn ==
    (entry # "none" /\ ~validateUrl(url)) =>
        /\ spawnCount = 0
        /\ args = <<>>
        /\ pc = "threw"
        /\ caught = NoError
        /\ thrown = "Invalid or unsupported URL format"
        /\ spc \in {"awaiting", "threw"} => entry = "getVideoCommentsSummary"
        /\ spc = "threw" => summaryThrown = "Invalid or unsupported URL format"

\* getVideoCommentsSummary has failed on an invalid URL
C7_SummaryRejectedInvalidUrl ==
    /\ entry = "getVideoCommentsSummary"
    /\ ~validateUrl(url)
    /\ spc = "threw"
    /\ summaryThrown = "Invalid or unsupported URL format"
    /\ spawnCount = 0

-----------------------------------------------------------------------------
(* Environment overrides and structural validation (ConfigSpec) *)

EnvCharacterLimit == env["YTDLP_CHARACTER_LIMIT"]
EnvMaxTranscript  == env["YTDLP_MAX_TRANSCRIPT_LENGTH"]

\* s is set to the decimal text of a positive integer
PositiveInteger(s) ==
    /\ Truthy(s)
    /\ \A i \in 1..Len(s) : IsDigit(CharAt(s, i))
    /\ parseInt(s) > 0

\* C11: a loaded configuration carries the character limit and the maximum
\* transcript length the environment names (a positive integer N gives N),
\* and the defaults 25000 and 50000 when the variable is absent.
C11_LimitsFollowEnvironment ==
    phase = "loaded" =>
        /\ config.limits.characterLimit =
              IF PositiveInteger(EnvCharacterLimit)
              THEN parseInt(EnvCharacterLimit)
              ELSE defaultConfig.limits.characterLimit
        /\ config.limits.maxTranscriptLength =
              IF PositiveInteger(EnvMaxTranscript)
              THEN parseInt(EnvMaxTranscript)
              ELSE defaultConfig.limits.maxTranscriptLength

EnvMaxFilenameLength == env["YTDLP_MAX_FILENAME_LENGTH"]

\* s is set to the decimal text of an integer, signed or not
IntegerText(s) ==
    /\ Truthy(s)
    /\ LET start == IF CharAt(s, 1) = "-" THEN 2 ELSE 1
       IN  /\ start <= Len(s)
           /\ \A i \in start..Len(s) : IsDigit(CharAt(s, i))

\* C12: a load under an environment whose maximum filename length is an
\* integer below 5 aborts: it throws and yields no Configuration.
C12_ShortFilenameLengthAborts ==
    [][(LoadStep /\ IntegerText(EnvMaxFilenameLength)
                 /\ parseInt(EnvMaxFilenameLength) < 5) =>
          /\ phase' = "failed"
          /\ config' = NoConfig
          /\ loadError' # undefined]_vars

EnvResolution == env["YTDLP_DEFAULT_RESOLUTION"]

\* C13: a load under an environment whose default resolution is set to
\* something other than 480p, 720p, 1080p, best aborts with an error.
C13_BadResolutionAborts ==
    [][(LoadStep /\ Truthy(EnvResolution)
                 /\ EnvResolution \notin {"480p", "720p", "1080p", "best"}) =>
          /\ phase' = "failed"
          /\ config' = NoConfig
          /\ loadError' # undefined]_vars

-----------------------------------------------------------------------------
(* Properties of sanitizeFilename (SanitizeSpec) *)

EndsWith(s, tail) == Len(tail) <= Len(s) /\ SubSeq(s, Len(s) - Len(tail) + 1, Len(s)) = tail

\* C14: when the name after replacement and reserved-name prefixing is
\* longer than maxFilenameLength, the result is exactly maxFilenameLength
\* long and ends with the extension of that name.
C14_TruncatedToExactLength ==
    (sfPhase = "done" /\ sfConfig.maxFilenameLength >= 5
        /\ Len(Prepared(sfName, sfConfig)) > sfConfig.maxFilenameLength) =>
        /\ Len(sfResult) = sfConfig.maxFilenameLength
        /\ EndsWith(sfResult, extname(Prepared(sfName, sfConfig)))

\* the "_" put before a reserved name: 1 when present, else 0
PrefixLen == Len(Prepared(sfName, sfConfig)) - Len(sfName)

\* the leading characters of the result that come from the input: all of
\* them, or those before the truncation suffix
KeptLen ==
    IF Len(Prepared(sfName, sfConfig)) > sfConfig.maxFilenameLength
    THEN LET k == Len(sfResult) - PrefixLen
                  - Len(sfConfig.sanitize.truncateSuffix)
                  - Len(extname(Prepared(sfName, sfConfig)))
         IN  IF k < 0 THEN 0 ELSE k
    ELSE Len(sfName)

\* C15: no character of the input that matches the illegal-character
\* pattern is still at its place in the result, for the built-in pattern
\* and for one read from the environment.
C15_NoIllegalCharSurvives ==
    sfPhase = "done" =>
        \A i \in 1..KeptLen :
            CharAt(sfName, i) \in ClassMembers(sfConfig.sanitize.illegalChars)
                => CharAt(sfResult, i + PrefixLen) # CharAt(sfName, i)

-----------------------------------------------------------------------------
(* Projection and invocation count of getVideoComments (CommentsSpec) *)

\* C16: in every response each comment holds exactly the thirteen known
\* members, each with the source's value or undefined; in the serialized
\* text a member present in the source appears with that value, a member
\* absent in the source does not appear at all, and no member outside the
\* schema appears.
C16_ProjectionKeepsAbsence ==
    HasResponse =>
        /\ result = StringifyResponse(response)
        /\ \A i \in 1..Len(response.comments) :
              LET src  == rawComments[i]
                  out  == response.comments[i]
                  json == CommentJson(out)
              IN  /\ DOMAIN out = KnownFieldSet
                  /\ \A f \in KnownFieldSet :
                        IF f \in DOMAIN src
                        THEN /\ out[f] = <<src[f]>>
                             /\ Includes(json, QuoteJson(f) \o ": "
                                               \o ValueJson(f, src[f]))
                        ELSE /\ out[f] = <<>>
                             /\ ~Includes(json, QuoteJson(f) \o ":")
                  /\ \A f \in (DOMAIN src) \ KnownFieldSet :
                        ~Includes(json, QuoteJson(f))

\* a reply with four members was returned: like_count 0 is in the text,
\* author and is_pinned are not
C16_SparseCommentReturned ==
    /\ pc = "returned"
    /\ Len(response.comments) = 1
    /\ rawComments[1] = ReplyComment
    /\ Includes(result, "\"like_count\": 0")
    /\ ~Includes(result, "\"author\"")
    /\ ~Includes(result, "\"is_pinned\"")

\* C20: a call invokes yt-dlp at most once; when the invocation fails the
\* call throws one classified error without invoking it again, and
\* nothing is invoked after the error.
C20_FailureNeverRetried ==
    [][/\ spawnCount' <= 1
       /\ (pc = "awaiting" /\ caught' # caught) =>
             /\ pc' = "threw"
             /\ spawnCount' = spawnCount
             /\ thrown = undefined /\ thrown' # undefined
       /\ pc = "threw" =>
             \/ pc' = "threw" /\ spawnCount' = spawnCount /\ thrown' = thrown
             \/ pc' = "idle"]_vars

\* yt-dlp was invoked once, failed, and the call has thrown
C20_FailedAfterOneInvocation ==
    /\ pc = "threw"
    /\ spawnCount = 1
    /\ caught # NoError
    /\ caught.message = "yt-dlp exited with code 1"
    /\ thrown # undefined

-----------------------------------------------------------------------------
(* Properties of the module's life (LifecycleSpec) *)

\* C18: once CONFIG is built no step changes it or the value of
\* getCookieArgs(CONFIG): not a change of an environment variable, not
\* the cookie file appearing or disappearing, not a later loadConfig().
C18_ConfigBuiltOnce ==
    [][phase = "loaded" =>
          /\ phase' = "loaded"
          /\ CONFIG' = CONFIG
          /\ getCookieArgs(CONFIG') = getCookieArgs(CONFIG)]_vars

\* CONFIG still names the cookie file it was built with although the
\* variable has been deleted and the file removed since
C18_EnvironmentChangedAfterBuild ==
    /\ phase = "loaded"
    /\ env["YTDLP_COOKIES_FILE"] = undefined
    /\ CookieFile \notin files
    /\ CONFIG.cookies.file = CookieFile
    /\ getCookieArgs(CONFIG) = <<"--cookies", CookieFile>>

\* C19: two loadConfig() calls under the same environment variables and
\* the same answer of the filesystem have the same outcome, the same
\* Configuration or the same error, whatever calls were made in between;
\* and no call changes the built-in defaults.
C19_LoadConfigHistoryFree ==
    /\ defaults = defaultConfig
    /\ (refCall # NoCall /\ lastCall # NoCall
           /\ refCall.env = lastCall.env /\ refCall.files = lastCall.files) =>
          /\ refCall.threw = lastCall.threw
          /\ refCall.config = lastCall.config

\* the same environment was loaded twice with equal results, and between
\* the two a load under another environment cleared a cookie field
C19_SameOutcomeAfterClearingLoad ==
    /\ refCall # NoCall /\ lastCall # NoCall
    /\ between
    /\ refCall.env = lastCall.env /\ refCall.files = lastCall.files
    /\ refCall.env["YTDLP_COOKIES_FROM_BROWSER"] = "Chrome"
    /\ lastCall.threw = undefined
    /\ lastCall.config.cookies.fromBrowser = "Chrome"
    /\ lastCall.config.cookies.file = undefined

-----------------------------------------------------------------------------
(* Properties of concurrent calls (ConcurrentSpec) *)

\* what the call noted in req receives when it runs with no other call in
\* flight, given Config cfg and yt-dlp result t
SoloOutcome(req, cfg, t) ==
    LET s == StartComments(req.url, req.maxComments, req.sortOrder, cfg)
        comments == IF s.pc = "threw" THEN Threw(s.thrown)
                    ELSE ResumeComments(req, cfg, t)
    IN  IF req.entry = "getVideoComments" THEN comments
        ELSE ResumeSummary(req, comments)

\* C17: whatever the interleaving, no step of a call changes the shared
\* Config, a call that settles receives what it would have received
\* running alone on the same yt-dlp result, and what a call has received
\* is not touched by the steps of the other calls.
C17_CallsDoNotInterfere ==
    [][/\ shared # NoConfig => shared' = shared
       /\ \A i \in CallIds :
             /\ (cpc[i] # "settled" /\ cpc'[i] = "settled") =>
                   LET solo == SoloOutcome(asked'[i], shared', tools'[i])
                   IN  /\ outcome'[i].kind = solo.kind
                       /\ outcome'[i].value = solo.value
             /\ cpc[i] = "settled" =>
                   /\ cpc'[i] = "settled"
                   /\ outcome'[i] = outcome[i]
                   /\ asked'[i] = asked[i]
                   /\ tools'[i] = tools[i]]_vars

\* two calls with different maxComments overlapped, the second started
\* while the first was suspended, and both returned responses of their own
C17_OverlappingCallsSettled ==
    /\ cpc[1] = "settled" /\ cpc[2] = "settled"
    /\ asked[2].overlapped
    /\ asked[1].maxComments = 1 /\ asked[2].maxComments = 2
    /\ outcome[1].kind = "returned" /\ outcome[2].kind = "returned"
    /\ outcome[1].value # outcome[2].value

-----------------------------------------------------------------------------
\* C21: getVideoCommentsSummary runs getVideoComments with sort order "top",
\* whatever the caller asked for elsewhere, and when getVideoComments throws
\* the summary's caller sees an Error with the very message getVideoComments
\* threw: the summary neither returns a text nor rewords the failure.
C21_SummaryRethrowsUnchanged ==
    /\ entry = "getVideoCommentsSummary" =>
          /\ sortOrder = "top"
          /\ spawnCount > 0 => Includes(args[6], "comment_sort=top;")
    /\ spc = "threw" =>
          /\ pc = "threw"
          /\ summaryThrown = thrown
          /\ summary = undefined
    /\ entry = "getVideoCommentsSummary" /\ pc = "threw" => spc # "returned"

\* a summary call failed on a classified yt-dlp error and its caller has
\* the classified message
C21_SummaryFailedWithToolError ==
    /\ entry = "getVideoCommentsSummary"
    /\ spc = "threw"
    /\ caught # NoError
    /\ caught.isError
    /\ Includes(caught.message, "age-restricted")
    /\ summaryThrown =
          "This video requires authentication to view comments. Configure cookies in your settings."

-----------------------------------------------------------------------------
(* Properties of the summary's author line (AuthorLineSpec) *)

\* the position of the first occurrence of sub in s, 0 when there is none
IndexOf(s, sub) ==
    LET at == {i \in 1..(Len(s) - Len(sub) + 1) : SubSeq(s, i, i + Len(sub) - 1) = sub}
    IN  IF at = {} THEN 0 ELSE CHOOSE i \in at : \A j \in at : i <= j

Has(c, f) == f \in DOMAIN c

\* the name shown: the author, or Unknown for a missing or empty one
ShownAuthor == IF Has(lnComment, "author") /\ lnComment.author # ""
               THEN lnComment.author ELSE "Unknown"

LinePrefix == "Author: " \o ShownAuthor

\* what follows the name on the line
LineRest == SubSeq(lnLine, Len(LinePrefix) + 1, Len(lnLine))

IsUploader == Has(lnComment, "author_is_uploader") /\ lnComment.author_is_uploader
IsVerified == Has(lnComment, "author_is_verified") /\ lnComment.author_is_verified
IsPinned   == Has(lnComment, "is_pinned") /\ lnComment.is_pinned
HasLikes   == Has(lnComment, "like_count") /\ lnComment.like_count > 0

TimeText == IF Has(lnComment, "time_text") THEN lnComment.time_text ELSE ""

\* the five segments in the order stated, each with the text that marks
\* it on the line and its full text; shown says which ones are due
Segments(timeShown) ==
    <<[mark |-> " [UPLOADER]", text |-> " [UPLOADER]", due |-> IsUploader],
      [mark |-> " [VERIFIED]", text |-> " [VERIFIED]", due |-> IsVerified],
      [mark |-> " [PINNED]", text |-> " [PINNED]", due |-> IsPinned],
      [mark |-> " (", text |-> " (" \o TimeText \o ")", due |-> timeShown],
      [mark |-> " likes",
       text |-> IF HasLikes
                THEN " - " \o toLocaleString(lnComment.like_count) \o " likes"
                ELSE " likes",
       due  |-> HasLikes]>>

RECURSIVE SumLen(_, _)
SumLen(segs, i) ==
    IF i > Len(segs) THEN 0
    ELSE (IF segs[i].due THEN Len(segs[i].text) ELSE 0) + SumLen(segs, i + 1)

\* the line is the name followed by exactly the segments that are due, in
\* the order of segs
LineMadeOf(segs) ==
    /\ Len(lnLine) >= Len(LinePrefix)
    /\ SubSeq(lnLine, 1, Len(LinePrefix)) = LinePrefix
    /\ \A k \in 1..Len(segs) :
          IF segs[k].due THEN IndexOf(LineRest, segs[k].text) > 0
          ELSE IndexOf(LineRest, segs[k].mark) = 0
    /\ \A j, k \in 1..Len(segs) :
          j < k /\ segs[j].due /\ segs[k].due =>
              IndexOf(LineRest, segs[j].text) < IndexOf(LineRest, segs[k].text)
    /\ Len(LineRest) = SumLen(segs, 1)

-----------------------------------------------------------------------------
(* Further properties of the comments pipeline (CommentsSpec) *)

\* the decimal text of an integer as a template literal writes it
NumberText(n) == IF n < 0 THEN "-" \o ToString(0 - n) ELSE ToString(n)

\* the six fixed flags and the extractor parameter for a sort order and cap
FixedArgs(sort, maxC) ==
    <<"--dump-json", "--no-warnings", "--no-check-certificate",
      "--write-comments", "--extractor-args",
      "youtube:comment_sort=" \o sort \o ";max_comments=" \o NumberText(maxC)
          \o ",all,all",
      "--skip-download">>

\* C23: whenever getVideoComments invokes yt-dlp, the argument vector is
\* the seven fixed elements (with the call's sort order and cap in the
\* extractor parameter), then exactly getCookieArgs(config) for the config
\* it was given, then the url as the last element.
C23_ArgumentVector ==
    spawnCount > 0 =>
        /\ Len(args) >= 8
        /\ SubSeq(args, 1, 7) = FixedArgs(sortOrder, maxComments)
        /\ cfgArg # NoConfig =>
              SubSeq(args, 8, Len(args) - 1) = getCookieArgs(cfgArg)
        /\ args[Len(args)] = url
        /\ \A i \in 1..(Len(args) - 1) : args[i] # url

\* yt-dlp was invoked for newest-first comments with a cookie file configured
C23_InvokedWithCookieFile ==
    /\ spawnCount = 1
    /\ sortOrder = "new"
    /\ maxComments = 20
    /\ cfgArg # NoConfig
    /\ args = <<"--dump-json", "--no-warnings", "--no-check-certificate",
                "--write-comments", "--extractor-args",
                "youtube:comment_sort=new;max_comments=20,all,all",
                "--skip-download", "--cookies", CookieFile,
                "https://www.youtube.com/watch?v=jNQXAC9IVRw">>

\* C24: size enforcement never empties the response and is bounded.  The
\* loop is entered with nothing dropped; every pass removes exactly the
\* last comment and leaves the ones before it as they were; and a response
\* built from N >= 1 retained comments always holds at least 1 comment, so
\* the passes of one call number at most N - 1.
C24_SizeLoopBounded ==
    /\ [][/\ (pc = "awaiting" /\ pc' = "loop") =>
                 /\ truncatedComments' = response'.comments
                 /\ Len(truncatedComments') = Retained'
          /\ (pc = "loop" /\ pc' = "loop") =>
                 /\ Len(truncatedComments) >= 2
                 /\ truncatedComments' =
                       SubSeq(truncatedComments, 1, Len(truncatedComments) - 1)
                 /\ response'.comments = truncatedComments'
                 /\ Dropped' = Dropped + 1
          /\ (pc = "loop" /\ pc' = "returned") =>
                 UNCHANGED <<truncatedComments, response, result>>]_vars
    /\ [](HasResponse /\ Retained >= 1 =>
             /\ Len(response.comments) >= 1
             /\ Dropped <= Retained - 1
             /\ response.count = Len(response.comments))

\* three comments were retained and the loop took its two passes, returning
\* the first comment although it is still over the limit
C24_LoopRanToLastComment ==
    /\ pc = "returned"
    /\ Retained = 3
    /\ Dropped = 2
    /\ Len(response.comments) = 1
    /\ Len(result) > Limit
    /\ response.comments[1] = ProjectComment(rawComments[1])

-----------------------------------------------------------------------------
(* Further properties of the configuration resolver (ConfigSpec) *)

\* the messages of the Errors the structural rules throw
StructuralErrors ==
    {"maxFilenameLength must be at least 5", "downloadsDir must be specified",
     "tempDirPrefix must be specified", "Invalid defaultResolution",
     "Invalid defaultAudioFormat", "Invalid defaultSubtitleLanguage"}

\* the cookie settings of the environment would draw a warning
CookieTrouble ==
    \/ Truthy(EnvFile) /\ EnvFile \notin files
    \/ Truthy(EnvBrowser) /\ ~NamesValidBrowser(EnvBrowser)

\* C25: loadConfig validates structure first and cookies second.  When a
\* structural rule fails the load throws that rule's Error, no cookie
\* warning has been logged and no Configuration exists, whatever the cookie
\* settings; a cookie warning is logged only in a load whose configuration
\* passed every structural rule, and that load returns.
C25_StructuralBeforeCookies ==
    [][LoadStep =>
          /\ ~OtherFieldsValid =>
                /\ phase' = "failed"
                /\ loadError' \in StructuralErrors
                /\ warnings' = <<>>
                /\ config' = NoConfig
          /\ warnings' # <<>> =>
                /\ OtherFieldsValid
                /\ CookieTrouble
                /\ phase' = "loaded"]_vars

\* a load failed on the subtitle language while the cookie file was missing
\* too, and nothing was logged about the cookie file
C25_FailedBeforeCookieCheck ==
    /\ phase = "failed"
    /\ env["YTDLP_DEFAULT_SUBTITLE_LANG"] = "english"
    /\ EnvFile = MissingFile
    /\ loadError = "Invalid defaultSubtitleLanguage"
    /\ warnings = <<>>
    /\ config = NoConfig

\* every validation rule at once, for a Configuration c and the files
\* that existed when it was loaded
SatisfiesAllRules(c, fs) ==
    /\ c.file.maxFilenameLength >= 5
    /\ c.file.downloadsDir \notin {undefined, ""}
    /\ c.file.tempDirPrefix \notin {undefined, ""}
    /\ c.download.defaultResolution \in {"480p", "720p", "1080p", "best"}
    /\ c.download.defaultAudioFormat \in {"m4a", "mp3"}
    /\ LanguageTagTest(c.download.defaultSubtitleLanguage)
    /\ c.cookies.file = undefined \/ c.cookies.file \in fs
    /\ \/ c.cookies.fromBrowser = undefined
       \/ toLowerCase(SplitFirst(c.cookies.fromBrowser, ":")) \in NineBrowsers

\* C26: every Configuration loadConfig returns, for any environment and any
\* set of existing files, satisfies all validation rules together: the six
\* structural rules, cookies.file undefined or a path that existed at load
\* time, cookies.fromBrowser undefined or naming one of the nine browsers.
C26_ReturnedConfigValid ==
    [][(LoadStep /\ phase' = "loaded") =>
          /\ config' # NoConfig
          /\ SatisfiesAllRules(config', files)]_vars

\* a load returned a Configuration taking its filename length and its
\* cookie file from the environment
C26_ValidConfigFromEnvironment ==
    /\ phase = "loaded"
    /\ EnvMaxFilenameLength = "100"
    /\ EnvFile = CookieFile
    /\ config.file.maxFilenameLength = 100
    /\ config.cookies.file = CookieFile
    /\ CookieFile \in files

\* both cookie variables are set and the browser one names a valid browser
BothCookieSourcesSet ==
    /\ Truthy(EnvFile)
    /\ Truthy(EnvBrowser)
    /\ NamesValidBrowser(EnvBrowser)

\* C27: the precedence of the cookie file over the browser applies to the
\* validated configuration.  A load with both cookie variables set, the
\* file path not existing and the browser valid clears cookies.file and
\* keeps cookies.fromBrowser; and getCookieArgs on a loaded configuration
\* whose file was cleared that way returns ["--cookies-from-browser", B],
\* never [] and never ["--cookies", F].
C27_BrowserFallback ==
    /\ [][(LoadStep /\ phase' = "loaded" /\ BothCookieSourcesSet
              /\ EnvFile \notin files) =>
             /\ config'.cookies.file = undefined
             /\ config'.cookies.fromBrowser = EnvBrowser]_vars
    /\ []((phase = "loaded" /\ argConfig = config
              /\ config.cookies.file = undefined /\ BothCookieSourcesSet) =>
             cookieArgs = <<"--cookies-from-browser", EnvBrowser>>)

\* getCookieArgs fell back to the browser profile after the load dropped a
\* cookie file that does not exist
C27_FellBackToBrowser ==
    /\ phase = "loaded"
    /\ EnvFile = MissingFile
    /\ EnvBrowser = "chrome:Profile 1"
    /\ argConfig = config
    /\ cookieArgs = <<"--cookies-from-browser", "chrome:Profile 1">>

\* C28: a getVideoComments call made without a configuration adds no cookie
\* arguments to the invocation, never enters the size loop, and returns the
\* capped list serialized as it is, whatever its length: no _truncated, no
\* _message, count the number of retained comments and has_more equal to
\* (source length > maxComments).
C28_NoConfigNoCeiling ==
    (entry # "none" /\ cfgArg = NoConfig) =>
        /\ spawnCount > 0 => args = FixedArgs(sortOrder, maxComments) \o <<url>>
        /\ pc # "loop"
        /\ pc = "returned" =>
              /\ DOMAIN response = {"count", "has_more", "comments"}
              /\ response.count = Retained
              /\ response.has_more = (Len(rawComments) > maxComments)
              /\ response.comments = MapProject(Slice0(rawComments, maxComments))
              /\ result = StringifyResponse(response)

\* a call without a configuration returned three comments in a text longer
\* than the limits the configured calls are held to
C28_LongResponseReturnedWhole ==
    /\ entry = "getVideoComments"
    /\ cfgArg = NoConfig
    /\ pc = "returned"
    /\ Len(rawComments) = 3
    /\ maxComments = 2
    /\ response.count = 2
    /\ response.has_more
    /\ Len(result) > 600

====
